---------------------------- MODULE Spec2Model ----------------------------
(***************************************************************************)
(* A model of the execution core of the klee-concolic symbolic executor:   *)
(*   - ExecutionState fork / merge      (lib/Core/ExecutionState.cpp)       *)
(*   - the patch splitter splitExpr     (lib/Expr/ExprUtil.cpp)             *)
(* Expressions are immutable, hash-consed nodes: structural equality of    *)
(* the records below is pointer identity of the nodes.                     *)
(***************************************************************************)
EXTENDS Integers, Sequences, FiniteSets, TLC

(***************************************************************************)
(* Bounds of the model.                                                    *)
(***************************************************************************)
\* number of interpreter steps applied to the execution states before a merge
MaxSteps == 3
\* deepest call stack explored
MaxDepth == 2
\* width, in bits, of a revision tag (std::uint64_t in the code, scaled down)
TagBits == 3
\* number of execution states created or forked in one run
MaxStates == 3

(***************************************************************************)
(* Expression nodes (klee::Expr).  Every node carries every field so that  *)
(* nodes of different kinds compare unequal instead of being incomparable. *)
(***************************************************************************)
Node(k, m, ks, v) ==
  [kind |-> k, meta |-> m, kids |-> ks, value |-> v,
   merge |-> FALSE, truePatch |-> 0, falsePatch |-> 0,
   offset |-> 0, width |-> 0, updates |-> 0]

\* a null ref<Expr>
NullExpr == Node("Null", FALSE, <<>>, 0)

IsNull(e) == e.kind = "Null"

\* ConstantExpr::alloc(v, w)
ConstantAlloc(v, w) == [Node("Constant", FALSE, <<>>, v) EXCEPT !.width = w]

\* a symbolic leaf: a read, at a constant index, of the symbolic array a
SymRead(a) == [Node("Read", FALSE, <<ConstantAlloc(0, 32)>>, 0) EXCEPT !.updates = a]

AnyMeta(ks) == \E i \in 1..Len(ks) : ks[i].meta

\* AndExpr::create, OrExpr::create, NotExpr::create, SelectExpr::create build
\* the node of their kind; a select of two identical branches is that branch.
AndCreate(l, r) == Node("And", AnyMeta(<<l, r>>), <<l, r>>, 0)

OrCreate(l, r) == Node("Or", AnyMeta(<<l, r>>), <<l, r>>, 0)

NotCreate(e) == Node("Not", e.meta, <<e>>, 0)

SelectCreate(c, t, f) ==
  IF t = f THEN t ELSE Node("Select", AnyMeta(<<c, t, f>>), <<c, t, f>>, 0)

(***************************************************************************)
(* The value of an expression under an assignment sigma of the symbolic    *)
(* arrays (one byte each).                                                 *)
(***************************************************************************)
RECURSIVE Eval(_, _)
Eval(e, sigma) ==
  CASE e.kind = "Constant" -> e.value
    [] e.kind = "Read"     -> sigma[e.updates]
    [] e.kind = "Not"      -> IF Eval(e.kids[1], sigma) = 0 THEN 1 ELSE 0
    [] e.kind = "And"      -> IF Eval(e.kids[1], sigma) # 0 /\ Eval(e.kids[2], sigma) # 0
                              THEN 1 ELSE 0
    [] e.kind = "Or"       -> IF Eval(e.kids[1], sigma) # 0 \/ Eval(e.kids[2], sigma) # 0
                              THEN 1 ELSE 0
    [] e.kind = "Select"   -> IF Eval(e.kids[1], sigma) # 0
                              THEN Eval(e.kids[2], sigma) ELSE Eval(e.kids[3], sigma)

(***************************************************************************)
(* Execution states.                                                       *)
(***************************************************************************)
\* the functions of the program under analysis and their register counts
KFunctions == {"main", "f"}

numRegisters(kf) == IF kf = "main" THEN 1 ELSE 2

\* call sites (KInstIterator values); 0 is the null caller of the entry frame
Callers == {1, 2}

\* symbolic arrays that can be bound by addSymbolic
Arrays == {1, 2}

\* values the interpreter writes into registers
Values == {ConstantAlloc(1, 8), ConstantAlloc(2, 8)}

\* values the interpreter stores into memory bytes (a fresh byte is 0)
ByteValues == {ConstantAlloc(1, 8)}

\* path conditions the interpreter installs: a/!a for a forking branch, b
Conditions ==
  <<SymRead(1), NotCreate(SymRead(1)), SymRead(2), NotCreate(SymRead(2))>>

\* the order of std::set< ref<Expr> >, i.e. of Expr::compare
ExprRank(e) == CHOOSE i \in 1..Len(Conditions) : Conditions[i] = e

RECURSIVE SortedSeq(_)
SortedSeq(S) ==
  IF S = {} THEN <<>>
  ELSE LET first == CHOOSE e \in S : \A o \in S : ExprRank(e) <= ExprRank(o)
       IN  <<first>> \o SortedSeq(S \ {first})

Range(q) == {q[i] : i \in 1..Len(q)}

\* StackFrame::StackFrame(KInstIterator, KFunction*)
StackFrameNew(caller, kf) ==
  [caller |-> caller, kf |-> kf,
   locals |-> [i \in 1..numRegisters(kf) |-> NullExpr],
   allocas |-> {},
   nonLocalsRead |-> {}, nonLocalsWritten |-> {}]

\* StackFrame::StackFrame(const StackFrame&), lines 56-66: caller, kf and
\* allocas are copied and every register is copied into a new register
\* file; nonLocalsRead and nonLocalsWritten are not among the members copied
\* and are constructed empty
StackFrameCopy(s) ==
  [caller |-> s.caller, kf |-> s.kf,
   locals |-> [i \in 1..numRegisters(s.kf) |-> s.locals[i]],
   allocas |-> s.allocas,
   nonLocalsRead |-> {}, nonLocalsWritten |-> {}]

\* the copy of a std::vector<StackFrame>: every frame is copy-constructed
StackCopy(stack) == [f \in 1..Len(stack) |-> StackFrameCopy(stack[f])]

\* an ObjectState of `size' zero bytes at address `id'
ObjectStateNew(id, size, ro) ==
  [id |-> id, bytes |-> [i \in 1..size |-> ConstantAlloc(0, 8)],
   readOnly |-> ro, owned |-> FALSE]

\* the globals of the program under analysis as the Executor binds them
\* before the first instruction runs: a writable object of two bytes and
\* a constant, marked read-only, of one byte (MemoryMap: bindings ordered by
\* memory object)
ObjectsInitial ==
  << [mo |-> 1, os |-> ObjectStateNew(1, 2, FALSE)],
     [mo |-> 2, os |-> ObjectStateNew(2, 1, TRUE)] >>

\* size of the objects allocated on the stack
AllocaSize == 1

\* ExecutionState::ExecutionState(KFunction*), lines 74-78: pc and prevPC at
\* the first instruction, one frame without caller, a fresh identifier; the
\* address space is default-constructed and binds no object
ExecutionStateNew(kf, id) ==
  [id |-> id, pc |-> 1, prevPC |-> 1,
   stack |-> <<StackFrameNew(0, kf)>>,
   depth |-> 0,
   objects |-> <<>>,
   constraints |-> <<>>,
   symbolics |-> <<>>,
   coveredNew |-> FALSE,
   coveredLines |-> {},
   openMergeStack |-> <<>>]

(***************************************************************************)
(* ExecutionState::merge                                                   *)
(***************************************************************************)
Min(a, b) == IF a < b THEN a ELSE b

\* lines 169-181: some frame differs in caller or function, or one stack is deeper
StackMismatch(sa, sb) ==
  \/ \E i \in 1..Min(Len(sa), Len(sb)) :
        sa[i].caller # sb[i].caller \/ sa[i].kf # sb[i].kf
  \/ Len(sa) # Len(sb)

\* mutant: only a leftover binding of self is noticed after the loop
ObjectsMismatchSelfOnly(oa, ob) ==
  \/ \E i \in 1..Min(Len(oa), Len(ob)) : oa[i].mo # ob[i].mo
  \/ Len(oa) > Len(ob)

\* lines 233-258: the maps bind different objects at some position, or one is longer
ObjectsMismatch(oa, ob) ==
  \/ \E i \in 1..Min(Len(oa), Len(ob)) : oa[i].mo # ob[i].mo
  \/ Len(oa) # Len(ob)

\* lines 248-252: positions whose object states differ in identity
Mutated(oa, ob) == {i \in 1..Len(oa) : oa[i].os.id # ob[i].os.id}

\* lines 183-195
CommonConstraints(a, b) == Range(a.constraints) \cap Range(b.constraints)

ASuffix(a, b) == Range(a.constraints) \ CommonConstraints(a, b)

BSuffix(a, b) == Range(b.constraints) \ CommonConstraints(a, b)

\* lines 262-269: the conjunction of a suffix, folded in set order from true
RECURSIVE AndAll(_, _)
AndAll(acc, q) ==
  IF q = <<>> THEN acc ELSE AndAll(AndCreate(acc, Head(q)), Tail(q))

Guard(suffix) == AndAll(ConstantAlloc(1, 1), SortedSeq(suffix))

\* mutant: the branches of the select are swapped
MergeLocalSwapped(inA, av, bv) ==
  IF IsNull(av) \/ IsNull(bv) THEN av ELSE SelectCreate(inA, bv, av)

\* lines 280-289: one register of the merged frame
MergeLocal(inA, av, bv) ==
  IF IsNull(av) \/ IsNull(bv) THEN av ELSE SelectCreate(inA, av, bv)

\* lines 275-290
MergeStack(inA, sa, sb) ==
  [f \in 1..Len(sa) |->
     [sa[f] EXCEPT !.locals =
        [i \in 1..numRegisters(sa[f].kf) |->
           MergeLocal(inA, sa[f].locals[i], sb[f].locals[i])]]]

\* AddressSpace::getWriteable: the object state itself when this state owns
\* it, otherwise a private copy at a fresh address
GetWriteable(os, fresh) ==
  IF os.owned THEN os ELSE [os EXCEPT !.id = fresh, !.owned = TRUE]

\* mutant: the byte loop stops after the first byte
MergeBytesFirstOnly(inA, wos, otherOS) ==
  [wos EXCEPT !.bytes =
     [i \in 1..Len(wos.bytes) |->
        IF i = 1 THEN SelectCreate(inA, wos.bytes[i], otherOS.bytes[i])
        ELSE wos.bytes[i]]]

\* lines 302-306: every byte of a mutated object
MergeBytes(inA, wos, otherOS) ==
  [wos EXCEPT !.bytes =
     [i \in 1..Len(wos.bytes) |-> SelectCreate(inA, wos.bytes[i], otherOS.bytes[i])]]

\* lines 293-295: the position at which the address space binds mo
PositionOf(objects, mo) == CHOOSE k \in 1..Len(objects) : objects[k].mo = mo

\* lines 232, 292: the std::set `mutated' is iterated in the order of the
\* MemoryObject pointers; `order' lists the memory objects by increasing
\* host address, and the mutated ones are visited in that order
MutatedInOrder(oa, ob, order) ==
  SelectSeq(order, LAMBDA m : \E i \in Mutated(oa, ob) : oa[i].mo = m)

\* lines 292-307: the loop over the mutated objects. With assertions
\* compiled in, the loop stops at the first object that is read-only in
\* self (line 297) and the process aborts; the objects visited before it
\* are merged already. Without them (-DNDEBUG) a read-only object is
\* copied and merged like any other. The result is the address space, the
\* next free object-state address and whether line 297 failed.
RECURSIVE MergeObjects(_, _, _, _, _, _)
MergeObjects(inA, oa, ob, seq, fresh, asserts) ==
  IF seq = <<>> THEN [objects |-> oa, fresh |-> fresh, aborted |-> FALSE]
  ELSE LET k == PositionOf(oa, Head(seq))
           os == oa[k].os
       IN  IF asserts /\ os.readOnly
             THEN [objects |-> oa, fresh |-> fresh, aborted |-> TRUE]
           ELSE MergeObjects(inA,
                             [oa EXCEPT ![k].os =
                                MergeBytes(inA, GetWriteable(os, fresh), ob[k].os)],
                             ob, Tail(seq),
                             IF os.owned THEN fresh ELSE fresh + 1, asserts)

\* ConstraintManager::addConstraint
AddConstraintTo(cs, e) == Append(cs, e)

\* mutant: the two guards are conjoined instead of disjoined
MergeConstraintsAnd(a, b) ==
  AddConstraintTo(SortedSeq(CommonConstraints(a, b)),
                  AndCreate(Guard(ASuffix(a, b)), Guard(BSuffix(a, b))))

\* lines 309-314
MergeConstraints(a, b) ==
  AddConstraintTo(SortedSeq(CommonConstraints(a, b)),
                  OrCreate(Guard(ASuffix(a, b)), Guard(BSuffix(a, b))))

\* lines 260-316: the merge proper, once the preconditions hold. The
\* registers are merged first (lines 275-290), then the mutated objects; when
\* the assertion of line 297 fails the process aborts with the constraints
\* of self not yet replaced.
mergeStates(self, b, fresh, asserts, order) ==
  LET inA == Guard(ASuffix(self, b))
      m == MergeObjects(inA, self.objects, b.objects,
                        MutatedInOrder(self.objects, b.objects, order),
                        fresh, asserts)
      merged == [self EXCEPT !.stack = MergeStack(inA, self.stack, b.stack),
                             !.objects = m.objects]
  IN  IF m.aborted
        THEN [ret |-> "abort", self |-> merged, fresh |-> m.fresh]
      ELSE [ret |-> "true",
            self |-> [merged EXCEPT !.constraints = MergeConstraints(self, b)],
            fresh |-> m.fresh]

\* mutant: the registers are merged before the address spaces are compared
mergeStackFirst(self, b, fresh, asserts, order) ==
  IF self.pc # b.pc
    THEN [ret |-> "false", self |-> self, fresh |-> fresh]
  ELSE IF self.symbolics # b.symbolics
    THEN [ret |-> "false", self |-> self, fresh |-> fresh]
  ELSE IF StackMismatch(self.stack, b.stack)
    THEN [ret |-> "false", self |-> self, fresh |-> fresh]
  ELSE IF ObjectsMismatch(self.objects, b.objects)
    THEN [ret |-> "false",
          self |-> [self EXCEPT !.stack = MergeStack(Guard(ASuffix(self, b)), self.stack, b.stack)],
          fresh |-> fresh]
  ELSE mergeStates(self, b, fresh, asserts, order)

\* ExecutionState::merge: the value returned ("abort" when an assertion
\* ends the process), self afterwards, and the next free object-state
\* address. `asserts' tells whether the build compiles assertions in, and
\* `order' lists the memory objects by increasing host address.
merge(self, b, fresh, asserts, order) ==
  IF self.pc # b.pc
    THEN [ret |-> "false", self |-> self, fresh |-> fresh]
  ELSE IF self.symbolics # b.symbolics
    THEN [ret |-> "false", self |-> self, fresh |-> fresh]
  ELSE IF StackMismatch(self.stack, b.stack)
    THEN [ret |-> "false", self |-> self, fresh |-> fresh]
  ELSE IF ObjectsMismatch(self.objects, b.objects)
    THEN [ret |-> "false", self |-> self, fresh |-> fresh]
  ELSE mergeStates(self, b, fresh, asserts, order)

(***************************************************************************)
(* pickPatchNo and splitExpr (lib/Expr/ExprUtil.cpp).                      *)
(***************************************************************************)
\* 0xffffffffffffffff, the tag of a merged expression, at the model's tag width
Sentinel == 2^TagBits - 1

\* revision tags (std::uint64_t)
Tags == 0..Sentinel

\* mutant: the upper bound of the test is m instead of the sentinel
pickPatchNoBoundM(m, n) == IF 0 < n /\ n < m THEN n ELSE m

\* mutant: the sentinel passes for a revision number
pickPatchNoNoSentinel(m, n) == IF 0 < n THEN n ELSE m

\* pickPatchNo, lines 138-141
pickPatchNo(m, n) == IF 0 < n /\ n < Sentinel THEN n ELSE m

\* the tag of one combination of a select node's children, lines 181-182
SelectPatchNo(cond, trueExpr, falseExpr) ==
  pickPatchNo(cond, pickPatchNo(trueExpr, falseExpr))

\* mutant: SPLIT_AL_EXPR(Sge) is missing
BinaryKindsWithoutSge ==
  {"Add", "Sub", "Mul", "UDiv", "SDiv", "URem", "SRem",
   "And", "Or", "Xor", "Shl", "LShr", "AShr",
   "Eq", "Ne", "Ult", "Ule", "Ugt", "Uge", "Slt", "Sle", "Sgt"}

\* the kinds split by SPLIT_AL_EXPR, lines 224-246
BinaryKinds ==
  {"Add", "Sub", "Mul", "UDiv", "SDiv", "URem", "SRem",
   "And", "Or", "Xor", "Shl", "LShr", "AShr",
   "Eq", "Ne", "Ult", "Ule", "Ugt", "Uge", "Slt", "Sle", "Sgt", "Sge"}

\* the kinds with a single operand and no parameter, lines 155-159 and 248-251
UnaryKinds == {"NotOptimized", "Not"}

\* the kinds with a single operand and a width, lines 204-215
CastKinds == {"ZExt", "SExt"}

\* XExpr::create for the kinds without parameters
Create(kind, ks) ==
  IF kind = "Select" THEN SelectCreate(ks[1], ks[2], ks[3])
  ELSE Node(kind, AnyMeta(ks), ks, 0)

\* ReadExpr::create(updates, index)
ReadCreate(updates, index) ==
  [Node("Read", index.meta, <<index>>, 0) EXCEPT !.updates = updates]

\* ExtractExpr::create(expr, offset, width)
ExtractCreate(e, offset, width) ==
  [Node("Extract", e.meta, <<e>>, 0) EXCEPT !.offset = offset, !.width = width]

\* ZExtExpr::create(src, width), SExtExpr::create(src, width)
CastCreate(kind, e, width) == [Node(kind, e.meta, <<e>>, 0) EXCEPT !.width = width]

\* the result of splitExpr: the pairs pushed to res, and whether the
\* "invalid expression kind" assertion was reached
SplitResult(pairs, invalid) == [pairs |-> pairs, invalid |-> invalid]

\* mutant: the loop over the first split is the inner one
Cross2RightMajor(L, R) ==
  [k \in 1..Len(L) * Len(R) |->
     <<L[((k - 1) % Len(L)) + 1], R[((k - 1) \div Len(L)) + 1]>>]

\* the combinations of the pairs of two splits, in the order of the nested
\* loops: the second split innermost
Cross2(L, R) ==
  [k \in 1..Len(L) * Len(R) |->
     <<L[((k - 1) \div Len(R)) + 1], R[((k - 1) % Len(R)) + 1]>>]

\* the combinations of the pairs of three splits, the last split innermost
Cross3(C, L, R) ==
  [k \in 1..Len(C) * Len(L) * Len(R) |->
     <<C[((k - 1) \div (Len(L) * Len(R))) + 1],
       L[(((k - 1) \div Len(R)) % Len(L)) + 1],
       R[((k - 1) % Len(R)) + 1]>>]

\* mutant: the multi-revision marker is not consulted
FastPathNever(e) == FALSE

\* lines 149-152: an expression that is not multi-revision is not split
FastPath(e) == ~e.meta

RECURSIVE splitExpr(_)

\* lines 155-159, 248-251 (the operand of a Not is read through the expr
\* member of ExtractExpr, which is laid out like NotExpr::expr)
SplitUnary(e) ==
  LET src == splitExpr(e.kids[1]).pairs
  IN  SplitResult([k \in 1..Len(src) |-> <<src[k][1], Create(e.kind, <<src[k][2]>>)>>],
                  splitExpr(e.kids[1]).invalid)

\* lines 160-166
SplitRead(e) ==
  LET index == splitExpr(e.kids[1]).pairs
  IN  SplitResult([k \in 1..Len(index) |->
                     <<index[k][1], ReadCreate(e.updates, index[k][2])>>],
                  splitExpr(e.kids[1]).invalid)

\* mutant: both branches are tagged from the true patch index
SplitSelectMergeTrueOnly(e) ==
  LET truePairs == splitExpr(e.kids[2]).pairs
      falsePairs == splitExpr(e.kids[3]).pairs
  IN  SplitResult(
        [k \in 1..Len(truePairs) |->
           <<pickPatchNo(e.truePatch, truePairs[k][1]), truePairs[k][2]>>]
          \o [k \in 1..Len(falsePairs) |->
                <<pickPatchNo(e.truePatch, falsePairs[k][1]), falsePairs[k][2]>>],
        splitExpr(e.kids[2]).invalid \/ splitExpr(e.kids[3]).invalid)

\* lines 169-177: a select carrying patch indices
SplitSelectMerge(e) ==
  LET truePairs == splitExpr(e.kids[2]).pairs
      falsePairs == splitExpr(e.kids[3]).pairs
  IN  SplitResult(
        [k \in 1..Len(truePairs) |->
           <<pickPatchNo(e.truePatch, truePairs[k][1]), truePairs[k][2]>>]
          \o [k \in 1..Len(falsePairs) |->
                <<pickPatchNo(e.falsePatch, falsePairs[k][1]), falsePairs[k][2]>>],
        splitExpr(e.kids[2]).invalid \/ splitExpr(e.kids[3]).invalid)

\* the split no loop asks for: splitExpr is not called
NotCalled == SplitResult(<<>>, FALSE)

\* lines 178-187: any other select. The split of the true expression is
\* the range of the second loop, evaluated in the body of the first, and the
\* split of the false expression is evaluated in the body of the second: an
\* operand is split only if the splits before it have a pair.
SplitSelect(e) ==
  LET c == splitExpr(e.kids[1])
      t == IF c.pairs = <<>> THEN NotCalled ELSE splitExpr(e.kids[2])
      f == IF t.pairs = <<>> THEN NotCalled ELSE splitExpr(e.kids[3])
      x == Cross3(c.pairs, t.pairs, f.pairs)
  IN  SplitResult(
        [k \in 1..Len(x) |->
           <<SelectPatchNo(x[k][1][1], x[k][2][1], x[k][3][1]),
             SelectCreate(x[k][1][2], x[k][2][2], x[k][3][2])>>],
        c.invalid \/ t.invalid \/ f.invalid)

\* lines 189-196 and 216-223: concatenation and the binary operators. The
\* split of the right operand is the range of the inner loop: it is
\* evaluated only if the split of the left operand has a pair.
SplitBinary(e) ==
  LET left == splitExpr(e.kids[1])
      right == IF left.pairs = <<>> THEN NotCalled ELSE splitExpr(e.kids[2])
      x == Cross2(left.pairs, right.pairs)
  IN  SplitResult(
        [k \in 1..Len(x) |->
           <<pickPatchNo(x[k][1][1], x[k][2][1]),
             Create(e.kind, <<x[k][1][2], x[k][2][2]>>)>>],
        left.invalid \/ right.invalid)

\* lines 197-203
SplitExtract(e) ==
  LET src == splitExpr(e.kids[1]).pairs
  IN  SplitResult([k \in 1..Len(src) |->
                     <<src[k][1], ExtractCreate(src[k][2], e.offset, e.width)>>],
                  splitExpr(e.kids[1]).invalid)

\* lines 204-215
SplitCast(e) ==
  LET src == splitExpr(e.kids[1]).pairs
  IN  SplitResult([k \in 1..Len(src) |->
                     <<src[k][1], CastCreate(e.kind, src[k][2], e.width)>>],
                  splitExpr(e.kids[1]).invalid)

\* the kinds that reach the cases of lines 189-196 and 216-246
SplitBinaryKinds == BinaryKinds \cup {"Concat"}

\* splitExpr, lines 143-259
splitExpr(e) ==
  IF IsNull(e) THEN SplitResult(<<>>, FALSE)
  ELSE IF FastPath(e) THEN SplitResult(<< <<0, e>> >>, FALSE)
  ELSE CASE e.kind \in UnaryKinds -> SplitUnary(e)
         [] e.kind = "Read" -> SplitRead(e)
         [] e.kind = "Select" /\ e.merge -> SplitSelectMerge(e)
         [] e.kind = "Select" /\ ~e.merge -> SplitSelect(e)
         [] e.kind \in SplitBinaryKinds -> SplitBinary(e)
         [] e.kind = "Extract" -> SplitExtract(e)
         [] e.kind \in CastKinds -> SplitCast(e)
         [] e.kind = "Constant" -> SplitResult(<< <<0, e>> >>, FALSE)
         [] OTHER -> SplitResult(<<>>, TRUE)

(***************************************************************************)
(* The Differentiator record and its textual form (lib/Core/               *)
(* Differentiator.h, Differentiator.cpp).  A string is the sequence of its *)
(* bytes, 0..255; the text written to the stream is a string.              *)
(***************************************************************************)
Bytes == 0..255

\* the value of a char that holds byte b: negative from 0x80 on where the
\* build makes plain char signed
AsChar(b, charSigned) == IF charSigned /\ b >= 128 THEN b - 256 ELSE b

\* conversion of an int to unsigned char, and the byte a char is written as
AsByte(x) == x % 256

\* mutant: the letters are upper case
hexUpper(c) == AsByte(IF c < 10 THEN 48 + c ELSE 65 + c - 10)

\* hex, lines 37-39: '0' + c or 'a' + c - 10, narrowed to char
hex(c) == AsByte(IF c < 10 THEN 48 + c ELSE 97 + c - 10)

\* writeHex, lines 41-44: for every char c of s: "\\x", hex(c >> 4), hex(c & 0xf);
\* the arguments of hex are converted to unsigned char
writeHex(s, charSigned) ==
  [k \in 1..4 * Len(s) |->
     LET c == AsChar(s[((k - 1) \div 4) + 1], charSigned)
     IN  CASE (k - 1) % 4 = 0 -> 92
           [] (k - 1) % 4 = 1 -> 120
           [] (k - 1) % 4 = 2 -> hex(AsByte(c \div 16))
           [] OTHER -> hex(AsByte(c % 16))]

\* std::quoted: '"' and '\\' are preceded by '\\'
RECURSIVE Escaped(_)
Escaped(s) ==
  IF s = <<>> THEN <<>>
  ELSE (IF Head(s) \in {34, 92} THEN <<92, Head(s)>> ELSE <<Head(s)>>) \o Escaped(Tail(s))

\* quoted, lines 31-35
quoted(s) == <<34>> \o Escaped(s) \o <<34>>

\* operator<< of an unsigned integer: its decimal digits
RECURSIVE Decimal(_)
Decimal(n) == IF n < 10 THEN <<48 + n>> ELSE Decimal(n \div 10) \o <<48 + (n % 10)>>

\* operator< of std::string: lexicographic, bytes compared as unsigned
RECURSIVE LexLess(_, _)
LexLess(a, b) ==
  IF b = <<>> THEN FALSE
  ELSE IF a = <<>> THEN TRUE
  ELSE IF Head(a) # Head(b) THEN Head(a) < Head(b)
  ELSE LexLess(Tail(a), Tail(b))

\* the keys of std::map<std::uint8_t, ...> in iteration order
RECURSIVE SortedIndices(_)
SortedIndices(S) ==
  IF S = {} THEN <<>>
  ELSE LET first == CHOOSE k \in S : \A o \in S : k <= o
       IN  <<first>> \o SortedIndices(S \ {first})

\* the keys of std::map<std::string, ...> in iteration order
RECURSIVE SortedNames(_)
SortedNames(S) ==
  IF S = {} THEN <<>>
  ELSE LET first == CHOOSE n \in S : \A o \in S \ {n} : LexLess(n, o)
       IN  <<first>> \o SortedNames(S \ {first})

\* Differentiator::Differentiator, Differentiator.h line 40
Differentiator(a, b) ==
  [revA |-> a, revB |-> b, args |-> <<>>, outputs |-> <<>>]

\* what the stream holds, and whether the assert of line 50 stopped the program
Written(text, aborted) == [text |-> text, aborted |-> aborted]

\* lines 48-55: the arguments, ks being the indices still to come and last
\* the 8-bit counter
RECURSIVE ArgsLoop(_, _, _, _)
ArgsLoop(args, ks, last, asserts) ==
  IF ks = <<>> THEN Written(<<>>, FALSE)
  ELSE IF asserts /\ Head(ks) # last THEN Written(<<>>, TRUE)
  ELSE LET rest == ArgsLoop(args, Tail(ks), AsByte(last + 1), asserts)
       IN  Written((IF last # 0 THEN <<32>> ELSE <<>>) \o quoted(args[Head(ks)])
                     \o rest.text,
                   rest.aborted)

\* lines 57-65: the outputs, names being the names still to come
RECURSIVE OutputsLoop(_, _, _, _)
OutputsLoop(d, names, last, charSigned) ==
  IF names = <<>> THEN <<>>
  ELSE LET p == d.outputs[Head(names)]
       IN  (IF last # 0 THEN <<32, 58>> ELSE <<58>>) \o Head(names) \o <<32, 123>>
             \o Decimal(d.revA) \o <<32>> \o writeHex(p[1], charSigned)
             \o <<32>> \o Decimal(d.revB) \o <<32>> \o writeHex(p[2], charSigned)
             \o <<125>>
             \o OutputsLoop(d, Tail(names), AsByte(last + 1), charSigned)

\* operator<<(raw_ostream&, const Differentiator&), lines 46-69
Render(d, charSigned, asserts) ==
  LET a == ArgsLoop(d.args, SortedIndices(DOMAIN d.args), 0, asserts)
  IN  IF a.aborted THEN Written(<<123, 40>> \o a.text, TRUE)
      ELSE Written(<<123, 40>> \o a.text \o <<41, 32, 123>>
                     \o OutputsLoop(d, SortedNames(DOMAIN d.outputs), 0, charSigned)
                     \o <<125, 125>>,
                   FALSE)

(***************************************************************************)
(* findReads and findSymbolicObjects (lib/Expr/ExprUtil.cpp).  The updates *)
(* field of a read names its update list; update lists and update nodes    *)
(* live in two arenas, an update node being known by its address.          *)
(***************************************************************************)
\* the arrays with constant contents; arrays 1 and 2 are symbolic
ConstantArrays == {3}

\* Array::isSymbolicArray
isSymbolicArray(a) == a \notin ConstantArrays

\* reads of lists without updates: a[0], b[a[0]] and c[1]
ReadA == ReadCreate(1, ConstantAlloc(0, 32))

ReadB == ReadCreate(2, ReadA)

ReadC == ReadCreate(3, ConstantAlloc(1, 32))

\* the update nodes, by address: node 3 has the contents of node 1
UpdateNodes ==
  << [index |-> ConstantAlloc(0, 32), value |-> ReadA, next |-> 0],
     [index |-> ReadB, value |-> ConstantAlloc(7, 8), next |-> 1],
     [index |-> ConstantAlloc(0, 32), value |-> ReadA, next |-> 0] >>

\* the update lists: the root array and the address of the head, 0 if none
UpdateLists ==
  << [root |-> 1, head |-> 0], [root |-> 2, head |-> 0], [root |-> 3, head |-> 0],
     [root |-> 3, head |-> 1], [root |-> 2, head |-> 2], [root |-> 3, head |-> 3] >>

\* the expressions of the update chain that starts at head, lines 54-62:
\* index then value of every node
RECURSIVE ChainExprs(_)
ChainExprs(head) ==
  IF head = 0 THEN <<>>
  ELSE <<UpdateNodes[head].index, UpdateNodes[head].value>>
         \o ChainExprs(UpdateNodes[head].next)

\* mutant: the expression is pushed whether visited or not
PushAlways(st, k) ==
  IF k.kind # "Constant"
  THEN [st EXCEPT !.visited = @ \cup {k}, !.stack = Append(@, k),
                  !.pushed = Append(@, k)]
  ELSE st

\* !isa<ConstantExpr>(k) && visited.insert(k).second: stack.push_back(k)
PushIfNew(st, k) ==
  IF k.kind # "Constant" /\ k \notin st.visited
  THEN [st EXCEPT !.visited = @ \cup {k}, !.stack = Append(@, k),
                  !.pushed = Append(@, k)]
  ELSE st

RECURSIVE PushAll(_, _)
PushAll(st, ks) == IF ks = <<>> THEN st ELSE PushAll(PushIfNew(st, Head(ks)), Tail(ks))

\* mutant: the root goes on the stack without entering the visited set
FindReadsEnterUnvisited(e) ==
  [stack |-> <<e>>, visited |-> {}, updates |-> {}, results |-> <<>>,
   walked |-> <<>>, pushed |-> <<e>>, pops |-> 0]

\* findReads, lines 24-31: the state of the traversal before the loop;
\* pushed and pops record every push_back and the number of pop_back
FindReadsEnter(e) ==
  PushIfNew([stack |-> <<>>, visited |-> {}, updates |-> {}, results |-> <<>>,
             walked |-> <<>>, pushed |-> <<>>, pops |-> 0], e)

\* mutant: a read whose update chain was walked before is not reported
FindReadsReadMemoAll(st, re, visitUpdates) ==
  LET head == UpdateLists[re.updates].head
      fresh == visitUpdates /\ head \notin st.updates
      st1 == IF visitUpdates /\ ~fresh THEN st
             ELSE PushIfNew([st EXCEPT !.results = Append(@, re)], re.kids[1])
  IN  IF fresh
      THEN PushAll([st1 EXCEPT !.updates = @ \cup {head}, !.walked = Append(@, head)],
                   ChainExprs(head))
      ELSE st1

\* lines 37-64: the read popped is reported, its index pushed and, when
\* update lists are visited, the chain is walked unless its head was seen
FindReadsRead(st, re, visitUpdates) ==
  LET head == UpdateLists[re.updates].head
      st1 == PushIfNew([st EXCEPT !.results = Append(@, re)], re.kids[1])
  IN  IF visitUpdates /\ head \notin st1.updates
      THEN PushAll([st1 EXCEPT !.updates = @ \cup {head}, !.walked = Append(@, head)],
                   ChainExprs(head))
      ELSE st1

\* one iteration of the loop, lines 33-74
FindReadsIterate(st, visitUpdates) ==
  LET top == st.stack[Len(st.stack)]
      popped == [st EXCEPT !.stack = SubSeq(@, 1, Len(@) - 1), !.pops = @ + 1]
  IN  IF top.kind = "Read" THEN FindReadsRead(popped, top, visitUpdates)
      ELSE IF top.kind # "Constant" THEN PushAll(popped, top.kids)
      ELSE popped

\* mutant: a constant array is recorded as well
RecordRootAnyArray(st, root) ==
  IF root \notin st.results
  THEN [st EXCEPT !.results = @ \cup {root}, !.objects = Append(@, root)]
  ELSE st

\* SymbolicObjectFinder::visitRead, lines 92-94
RecordRoot(st, root) ==
  IF isSymbolicArray(root) /\ root \notin st.results
  THEN [st EXCEPT !.results = @ \cup {root}, !.objects = Append(@, root)]
  ELSE st

RECURSIVE Visit(_, _)
RECURSIVE VisitAll(_, _)
\* SymbolicObjectFinder::visitRead, lines 83-97, then the children
VisitRead(st, re) ==
  VisitAll(RecordRoot(VisitAll(st, ChainExprs(UpdateLists[re.updates].head)),
                      UpdateLists[re.updates].root),
           re.kids)

\* ExprVisitor::visit: a constant has nothing to visit, an expression
\* visited before is not visited again
Visit(st, e) ==
  IF e.kind = "Constant" \/ e \in st.cache THEN st
  ELSE LET done == IF e.kind = "Read" THEN VisitRead(st, e) ELSE VisitAll(st, e.kids)
       IN  [done EXCEPT !.cache = @ \cup {e}]

VisitAll(st, es) == IF es = <<>> THEN st ELSE VisitAll(Visit(st, Head(es)), Tail(es))

\* findSymbolicObjects(begin, end, results), lines 124-131
findSymbolicObjects(es, objects) ==
  VisitAll([cache |-> {}, results |-> {}, objects |-> objects], es).objects

(***************************************************************************)
(* The state of the model: the live execution states and the interpreter's *)
(* allocation counters, and the record of the merge attempted on them.     *)
(***************************************************************************)
VARIABLES
  states,    \* the live execution states, by identifier
  nextID,    \* ExecutionState::nextID
  nextOs,    \* the next free ObjectState address
  nextMo,    \* the next free MemoryObject
  steps,     \* interpreter steps taken so far
  call,      \* the merge attempted: self, b, the value returned, the states before it
  rev,       \* the merge of the fresh copies in the opposite direction
  expr,      \* the expression handed to splitExpr
  res,       \* what splitExpr returned for it
  tags,      \* three revision tags handed to pickPatchNo
  picked,    \* the tags pickPatchNo combined them to
  openStates, \* MergeHandler::openStates, by merge handler
  created,   \* the identifiers given to states, in the order of creation
  forked,    \* the last call of branch: self before and after it, and the copy
  diff,      \* the Differentiator record being populated
  inserted,  \* the names of its outputs, in the order of their insertion
  build,     \* how the program was built: plain char signed or not, asserts on or off
  out,       \* what rendering the record wrote to the stream
  hexIn,     \* a payload byte handed to writeHex
  hexOut,    \* what writeHex wrote for it
  query,     \* the expressions handed to the finders, and the visitUpdates flag
  fr,        \* findReads: where the call is, and its stack, sets and results
  found,     \* what findSymbolicObjects returned
  cmd,       \* the command line of ktest-gen, and whether its asserts are compiled in
  ktest      \* ktest-gen: where main is, and the KTest record b it fills

mergeVars == <<states, nextID, nextOs, nextMo, steps, call, rev>>

splitVars == <<expr, res>>

pickVars == <<tags, picked>>

forkVars == <<openStates, created, forked>>

\* the variables of the utilities that work on no execution state
renderVars == <<diff, inserted, build, out>>

hexVars == <<hexIn, hexOut>>

findVars == <<query, fr, found>>

ktestVars == <<cmd, ktest>>

utilVars == <<splitVars, pickVars, renderVars, hexVars, findVars, ktestVars>>

vars == <<mergeVars, forkVars, utilVars>>

NotSplit == [done |-> FALSE, pairs |-> <<>>, invalid |-> FALSE]

NotPicked ==
  [done |-> FALSE, mn |-> 0, left |-> 0, right |-> 0, direct |-> <<>>, again |-> <<>>]

NotWritten == [done |-> FALSE, text |-> <<>>, aborted |-> FALSE]

\* no record is being rendered
RenderIdle ==
  /\ diff = Differentiator(0, 0)
  /\ inserted = <<>>
  /\ build = [charSigned |-> TRUE, asserts |-> TRUE]
  /\ out = NotWritten

\* no byte is being escaped
HexIdle == hexIn = 0 /\ hexOut = NotWritten

NotEntered ==
  [pc |-> "idle",
   st |-> [stack |-> <<>>, visited |-> {}, updates |-> {}, results |-> <<>>,
           walked |-> <<>>, pushed |-> <<>>, pops |-> 0]]

NotFound == [done |-> FALSE, objects |-> <<>>]

\* no expression is being searched
FindIdle ==
  /\ query = [es |-> <<>>, visitUpdates |-> FALSE]
  /\ fr = NotEntered
  /\ found = NotFound

\* ktest-gen.cpp lines 78-84: the record before the options are read
NotRun ==
  [pc |-> "options", numObjects |-> 0, objects |-> <<>>, outside |-> FALSE,
   status |-> "running", symArg |-> 0, symArgs |-> 0]

\* ktest-gen is not run
KtestIdle ==
  /\ cmd = [option |-> "sym-arg", files |-> 0, stdin |-> FALSE, stdout |-> FALSE,
            asserts |-> TRUE]
  /\ ktest = NotRun

\* no expression is being split
SplitIdle == expr = NullExpr /\ res = NotSplit

\* no tags are being combined
PickIdle == tags = <<0, 0, 0>> /\ picked = NotPicked

\* the merge handlers of the interpreter
Handlers == {1, 2}

\* source lines of the program under analysis
Lines == {1}

NotForked ==
  [done |-> FALSE, pre |-> ExecutionStateNew("main", 0),
   self |-> ExecutionStateNew("main", 0), copy |-> ExecutionStateNew("main", 0)]

\* one state created, no merge handler open, no fork yet
ForkIdle ==
  /\ openStates = [h \in Handlers |-> {}]
  /\ created = <<1>>
  /\ forked = NotForked

\* instruction pointers of the program under analysis
Pcs == {1, 2}

\* the first state as its constructor leaves it: no object is bound yet
InitMerge ==
  /\ states = [i \in {1} |-> ExecutionStateNew("main", 1)]
  /\ nextID = 2
  /\ nextOs = 1
  /\ nextMo = 1
  /\ steps = 0
  /\ call = [self |-> 0, b |-> 0, ret |-> "none", asserts |-> TRUE, order |-> <<>>,
             pre |-> [i \in {1} |-> ExecutionStateNew("main", 1)]]
  /\ rev = [ret |-> "none", self |-> ExecutionStateNew("main", 1)]

Running == call.ret = "none" /\ steps < MaxSteps

\* assignments of the symbolic arrays
Sigmas == [Arrays -> 0..1]

\* sigma satisfies every constraint of the set
Sat(S, sigma) == \A c \in S : Eval(c, sigma) # 0

\* the solver finds an assignment satisfying the path condition
Feasible(cs) == \E sigma \in Sigmas : Sat(Range(cs), sigma)

\* the conditions of the branch instructions of the program under analysis
BranchConditions == {SymRead(1), SymRead(2)}

\* the Executor binds the globals of the program in the state it has just
\* constructed, before any instruction runs and before any other object exists
InitializeGlobals(s) ==
  /\ call.ret = "none"
  /\ nextMo = 1
  /\ states[s] = ExecutionStateNew(states[s].stack[1].kf, s)
  /\ states' = [states EXCEPT ![s].objects = ObjectsInitial]
  /\ nextOs' = nextOs + Len(ObjectsInitial)
  /\ nextMo' = nextMo + Len(ObjectsInitial)
  /\ UNCHANGED <<nextID, steps, call, rev, forkVars, utilVars>>

\* AddressSpace copy: no object state is exclusively owned afterwards
Shared(objects) ==
  [i \in 1..Len(objects) |-> [objects[i] EXCEPT !.os.owned = FALSE]]

\* mutant: the copy is registered with the innermost handler only
AddOpenStatesTopOnly(open, stack, id) ==
  [h \in DOMAIN open |->
     IF stack # <<>> /\ h = stack[Len(stack)] THEN open[h] \cup {id} ELSE open[h]]

\* the copy constructor, lines 111-112: the copy is registered with every
\* handler of its open-merge stack
AddOpenStates(open, stack, id) ==
  [h \in DOMAIN open |-> IF h \in Range(stack) THEN open[h] \cup {id} ELSE open[h]]

\* the destructor, lines 81-83: the state is removed from every handler of
\* its open-merge stack
RemoveOpenStates(open, stack, id) ==
  [h \in DOMAIN open |-> IF h \in Range(stack) THEN open[h] \ {id} ELSE open[h]]

\* mutant: falseState->setID() is missing, the copy keeps the identifier of self
branchKeepID(self, id) ==
  LET parent == [self EXCEPT !.depth = @ + 1, !.objects = Shared(@)]
  IN  [self |-> parent,
       falseState |-> [parent EXCEPT !.stack = StackCopy(@),
                         !.coveredNew = FALSE, !.coveredLines = {}]]

\* mutant: the copy keeps the coverage markers of self
branchKeepCoverage(self, id) ==
  LET parent == [self EXCEPT !.depth = @ + 1, !.objects = Shared(@)]
  IN  [self |-> parent,
       falseState |-> [parent EXCEPT !.stack = StackCopy(@), !.id = id]]

\* ExecutionState::branch, lines 115-124, with the copy constructor of lines
\* 88-110: self after the call and the state returned, which gets identifier id
branch(self, id) ==
  LET parent == [self EXCEPT !.depth = @ + 1, !.objects = Shared(@)]
  IN  [self |-> parent,
       falseState |-> [parent EXCEPT
                         !.stack = StackCopy(@),
                         !.id = id, !.coveredNew = FALSE, !.coveredLines = {}]]

\* the interpreter forks states[s] at a branch on cond that its path
\* condition does not decide: states[s].branch(), the copy joins the live
\* states, and the caller installs cond in self and its negation in the copy
Fork(s, cond) ==
  /\ nextID <= MaxStates
  /\ Feasible(AddConstraintTo(states[s].constraints, cond))
  /\ Feasible(AddConstraintTo(states[s].constraints, NotCreate(cond)))
  /\ LET r == branch(states[s], nextID)
     IN  /\ states' = [i \in DOMAIN states \cup {nextID} |->
                         IF i = s
                         THEN [r.self EXCEPT !.constraints = AddConstraintTo(@, cond)]
                         ELSE IF i = nextID
                         THEN [r.falseState EXCEPT
                                 !.constraints = AddConstraintTo(@, NotCreate(cond))]
                         ELSE states[i]]
         /\ openStates' = AddOpenStates(openStates, r.falseState.openMergeStack, nextID)
         /\ created' = Append(created, r.falseState.id)
         /\ forked' = [done |-> TRUE, pre |-> states[s], self |-> r.self,
                       copy |-> r.falseState]
  /\ nextID' = nextID + 1
  /\ UNCHANGED <<nextOs, nextMo, steps, call, rev, utilVars>>

\* the fork of the only state, before a merge is attempted
Branch(s, cond) ==
  /\ call.ret = "none"
  /\ DOMAIN states = {s}
  /\ Fork(s, cond)

\* the interpreter advances to the next instruction
StepPc(s) ==
  /\ Running
  /\ states[s].pc + 1 \in Pcs
  /\ states' = [states EXCEPT ![s].prevPC = states[s].pc, ![s].pc = @ + 1]
  /\ steps' = steps + 1
  /\ UNCHANGED <<nextID, nextOs, nextMo, call, rev, forkVars, utilVars>>

\* ExecutionState::pushFrame: stack.emplace_back(StackFrame(caller, kf)).
\* When the vector is at its capacity it moves to a larger buffer, which
\* copy-constructs the frames it holds (StackFrame has no move constructor);
\* whether it is at its capacity depends on the library's growth policy.
PushFrame(s, caller, kf) ==
  /\ Running
  /\ Len(states[s].stack) < MaxDepth
  /\ \E grows \in BOOLEAN :
        states' = [states EXCEPT
                     ![s].stack = Append(IF grows THEN StackCopy(@) ELSE @,
                                         StackFrameNew(caller, kf))]
  /\ steps' = steps + 1
  /\ UNCHANGED <<nextID, nextOs, nextMo, call, rev, forkVars, utilVars>>

\* AddressSpace::unbindObject for every object of a set
Unbind(objects, mos) == SelectSeq(objects, LAMBDA o : o.mo \notin mos)

\* ExecutionState::popFrame
PopFrame(s) ==
  /\ Running
  /\ Len(states[s].stack) > 1
  /\ LET sf == states[s].stack[Len(states[s].stack)]
     IN  states' = [states EXCEPT
                      ![s].objects = Unbind(@, sf.allocas),
                      ![s].stack = SubSeq(@, 1, Len(@) - 1)]
  /\ steps' = steps + 1
  /\ UNCHANGED <<nextID, nextOs, nextMo, call, rev, forkVars, utilVars>>

\* ExecutionState::addSymbolic
AddSymbolic(s, mo, array) ==
  /\ Running
  /\ \A i \in 1..Len(states[s].symbolics) : states[s].symbolics[i][2] # array
  /\ states' = [states EXCEPT ![s].symbolics = Append(@, <<mo, array>>)]
  /\ steps' = steps + 1
  /\ UNCHANGED <<nextID, nextOs, nextMo, call, rev, forkVars, utilVars>>

\* the interpreter writes a register of the running frame
BindLocal(s, i, v) ==
  /\ Running
  /\ i \in DOMAIN states[s].stack[Len(states[s].stack)].locals
  /\ states[s].stack[Len(states[s].stack)].locals[i] # v
  /\ states' = [states EXCEPT ![s].stack[Len(states[s].stack)].locals[i] = v]
  /\ steps' = steps + 1
  /\ UNCHANGED <<nextID, nextOs, nextMo, call, rev, forkVars, utilVars>>

\* the interpreter installs a path condition that the state can satisfy
AddConstraint(s, c) ==
  /\ Running
  /\ c \notin Range(states[s].constraints)
  /\ Feasible(AddConstraintTo(states[s].constraints, c))
  /\ states' = [states EXCEPT ![s].constraints = AddConstraintTo(@, c)]
  /\ steps' = steps + 1
  /\ UNCHANGED <<nextID, nextOs, nextMo, call, rev, forkVars, utilVars>>

\* the interpreter stores a byte: copy on write, then ObjectState::write
WriteByte(s, k, i, v) ==
  /\ Running
  /\ k \in 1..Len(states[s].objects)
  /\ ~states[s].objects[k].os.readOnly
  /\ i \in 1..Len(states[s].objects[k].os.bytes)
  /\ states[s].objects[k].os.bytes[i] # v
  /\ LET os == states[s].objects[k].os
         wos == GetWriteable(os, nextOs)
     IN  /\ states' = [states EXCEPT ![s].objects[k].os = [wos EXCEPT !.bytes[i] = v]]
         /\ nextOs' = IF os.owned THEN nextOs ELSE nextOs + 1
  /\ steps' = steps + 1
  /\ UNCHANGED <<nextID, nextMo, call, rev, forkVars, utilVars>>

\* the interpreter allocates a stack object in the running frame
Alloc(s) ==
  /\ Running
  /\ LET top == Len(states[s].stack)
         os == [ObjectStateNew(nextOs, AllocaSize, FALSE) EXCEPT !.owned = TRUE]
     IN  states' = [states EXCEPT
                      ![s].objects = Append(@, [mo |-> nextMo, os |-> os]),
                      ![s].stack[top].allocas = @ \cup {nextMo}]
  /\ nextOs' = nextOs + 1
  /\ nextMo' = nextMo + 1
  /\ steps' = steps + 1
  /\ UNCHANGED <<nextID, call, rev, forkVars, utilVars>>

\* every order in which the objects of a set can lie in host memory
RECURSIVE Orders(_)
Orders(S) ==
  IF S = {} THEN {<<>>}
  ELSE UNION {{<<m>> \o q : q \in Orders(S \ {m})} : m \in S}

\* the memory objects the merge of two address spaces would find mutated
MutatedObjects(oa, ob) ==
  IF ObjectsMismatch(oa, ob) THEN {} ELSE {oa[i].mo : i \in Mutated(oa, ob)}

\* self.merge(b) for two live states, by a build with or without assertions
\* and with the mutated objects lying in host memory in some order
Merge(self, b) ==
  /\ call.ret = "none"
  /\ self # b
  /\ \E asserts \in BOOLEAN,
        order \in Orders(MutatedObjects(states[self].objects, states[b].objects)) :
        LET r == merge(states[self], states[b], nextOs, asserts, order)
        IN  /\ states' = [states EXCEPT ![self] = r.self]
            /\ nextOs' = r.fresh
            /\ call' = [self |-> self, b |-> b, ret |-> r.ret,
                         asserts |-> asserts, order |-> order, pre |-> states]
  /\ UNCHANGED <<nextID, nextMo, steps, rev, forkVars, utilVars>>

\* b.merge(self) on the copies of the two states taken before the merge, by
\* the same build and with the objects where they are
MergeCopies ==
  /\ call.ret # "none"
  /\ rev.ret = "none"
  /\ LET r == merge(call.pre[call.b], call.pre[call.self], nextOs,
                     call.asserts, call.order)
     IN  rev' = [ret |-> r.ret, self |-> r.self]
  /\ UNCHANGED <<states, nextID, nextOs, nextMo, steps, call, forkVars, utilVars>>

NextMerge ==
  \/ \E s \in DOMAIN states : InitializeGlobals(s)
  \/ \E s \in DOMAIN states, cond \in BranchConditions : Branch(s, cond)
  \/ \E s \in DOMAIN states : StepPc(s)
  \/ \E s \in DOMAIN states, c \in Callers, kf \in KFunctions : PushFrame(s, c, kf)
  \/ \E s \in DOMAIN states : PopFrame(s)
  \/ \E s \in DOMAIN states, a \in Arrays : AddSymbolic(s, 1, a)
  \/ \E s \in DOMAIN states, i \in 1..2, v \in Values : BindLocal(s, i, v)
  \/ \E s \in DOMAIN states, c \in Range(Conditions) : AddConstraint(s, c)
  \/ \E s \in DOMAIN states, k \in 1..MaxSteps + 2, i \in 1..2, v \in ByteValues :
        WriteByte(s, k, i, v)
  \/ \E s \in DOMAIN states : Alloc(s)
  \/ \E s \in DOMAIN states, t \in DOMAIN states : Merge(s, t)
  \/ MergeCopies

\* the states before any merge, nothing being split or picked
InitMergeOnly ==
  InitMerge /\ ForkIdle /\ SplitIdle /\ PickIdle /\ RenderIdle /\ HexIdle /\ FindIdle /\ KtestIdle

SpecMerge ==
  InitMergeOnly
    /\ [][NextMerge]_vars

(***************************************************************************)
(* Claims about ExecutionState::merge, checked under SpecMerge.            *)
(***************************************************************************)
Merged == call.ret # "none"

PreSelf == call.pre[call.self]

PreB == call.pre[call.b]

OnlySelf == {c \in Range(PreSelf.constraints) : c \notin Range(PreB.constraints)}

OnlyB == {c \in Range(PreB.constraints) : c \notin Range(PreSelf.constraints)}

InBoth == {c \in Range(PreSelf.constraints) : c \in Range(PreB.constraints)}

Keys(objects) == [i \in 1..Len(objects) |-> objects[i].mo]

Shape(stack) == [i \in 1..Len(stack) |-> <<stack[i].caller, stack[i].kf>>]

PreconditionFails ==
  \/ PreSelf.pc # PreB.pc
  \/ PreSelf.symbolics # PreB.symbolics
  \/ Shape(PreSelf.stack) # Shape(PreB.stack)
  \/ Keys(PreSelf.objects) # Keys(PreB.objects)

\* C1: when a precondition of merge fails (instruction pointers, symbolic-object
\* lists, call-stack shapes or the objects bound at each position differ), merge
\* returns false and self and b are exactly as they were before the call.
C1_FailedMergeChangesNothing ==
  Merged /\ PreconditionFails => call.ret = "false" /\ states = call.pre

\* the scenario of the specification: same instruction pointer, deeper stack
C1_Witness ==
  /\ Merged
  /\ call.ret = "false"
  /\ PreSelf.pc = PreB.pc
  /\ PreSelf.symbolics = PreB.symbolics
  /\ Len(PreSelf.stack) # Len(PreB.stack)
  /\ PreSelf.stack[1].locals # PreB.stack[1].locals
  /\ states = call.pre

\* C2: after a successful merge the constraints of self are the constraints
\* common to both states, each once, followed by one constraint that holds
\* exactly when all constraints only in self hold or all constraints only in b hold.
C2_MergedConstraints ==
  call.ret = "true" =>
    LET cs == states[call.self].constraints
        n == Len(cs)
    IN  /\ n = Cardinality(InBoth) + 1
        /\ {cs[i] : i \in 1..n - 1} = InBoth
        /\ cs[n].kind = "Or"
        /\ \A sigma \in Sigmas :
             (Eval(cs[n].kids[1], sigma) # 0 <=> Sat(OnlySelf, sigma))
             /\ (Eval(cs[n].kids[2], sigma) # 0 <=> Sat(OnlyB, sigma))
             /\ (Eval(cs[n], sigma) # 0 <=> Sat(OnlySelf, sigma) \/ Sat(OnlyB, sigma))

C2_Witness ==
  /\ call.ret = "true"
  /\ InBoth # {}
  /\ OnlySelf # {}
  /\ OnlyB # {}
  /\ Len(states[call.self].constraints) = Cardinality(InBoth) + 1

\* C3: after a successful merge, a register for which both states held a
\* value and the two values differed holds select(inA, value of self, value
\* of b), inA holding exactly when the constraints only in self hold; every
\* other register of self, and the rest of each frame, is as before.
C3_MergedRegisters ==
  call.ret = "true" =>
    /\ Len(states[call.self].stack) = Len(PreSelf.stack)
    /\ \A f \in 1..Len(PreSelf.stack) :
         LET old == PreSelf.stack[f]
             new == states[call.self].stack[f]
         IN  /\ new.caller = old.caller
             /\ new.kf = old.kf
             /\ new.allocas = old.allocas
             /\ DOMAIN new.locals = DOMAIN old.locals
             /\ \A i \in DOMAIN old.locals :
                  LET av == old.locals[i]
                      bv == PreB.stack[f].locals[i]
                      nv == new.locals[i]
                  IN  IF ~IsNull(av) /\ ~IsNull(bv) /\ av # bv
                      THEN /\ nv.kind = "Select"
                           /\ nv.kids[2] = av
                           /\ nv.kids[3] = bv
                           /\ \A sigma \in Sigmas :
                                Eval(nv.kids[1], sigma) # 0 <=> Sat(OnlySelf, sigma)
                      ELSE nv = av

C3_Witness ==
  /\ call.ret = "true"
  /\ OnlySelf # {}
  /\ \E i \in DOMAIN PreSelf.stack[1].locals :
       /\ ~IsNull(PreSelf.stack[1].locals[i])
       /\ ~IsNull(PreB.stack[1].locals[i])
       /\ PreSelf.stack[1].locals[i] # PreB.stack[1].locals[i]
       /\ states[call.self].stack[1].locals[i].kind = "Select"

\* C4: after a successful merge every byte of every object whose object state
\* differs in identity evaluates to the byte of self under any assignment
\* satisfying the constraints only in self, and to the byte of b under any
\* assignment satisfying the constraints only in b; objects bound to the
\* identical object state are unchanged.
C4_BytesRecoverable ==
  call.ret = "true" =>
    /\ Keys(states[call.self].objects) = Keys(PreSelf.objects)
    /\ \A k \in 1..Len(PreSelf.objects) :
         LET a == PreSelf.objects[k].os
             b == PreB.objects[k].os
             n == states[call.self].objects[k].os
         IN  IF a.id = b.id
             THEN n = a
             ELSE /\ Len(n.bytes) = Len(a.bytes)
                  /\ \A i \in 1..Len(a.bytes), sigma \in Sigmas :
                       /\ Sat(OnlySelf, sigma) =>
                            Eval(n.bytes[i], sigma) = Eval(a.bytes[i], sigma)
                       /\ Sat(OnlyB, sigma) =>
                            Eval(n.bytes[i], sigma) = Eval(b.bytes[i], sigma)

C4_Witness ==
  /\ call.ret = "true"
  /\ OnlySelf # {}
  /\ OnlyB # {}
  /\ \E k \in 1..Len(PreSelf.objects) :
       /\ PreSelf.objects[k].os.id # PreB.objects[k].os.id
       /\ PreSelf.objects[k].os.bytes # PreB.objects[k].os.bytes
       /\ states[call.self].objects[k].os.bytes # PreSelf.objects[k].os.bytes
  /\ \E k \in 1..Len(PreSelf.objects) :
       PreSelf.objects[k].os.id = PreB.objects[k].os.id

\* C5: self.merge(b) succeeds exactly when b.merge(self) on fresh copies
\* succeeds, and then the two resulting constraint sets are satisfied by the
\* same assignments.
C5_MergeCommutes ==
  rev.ret # "none" =>
    /\ call.ret = "true" <=> rev.ret = "true"
    /\ call.ret = "true" =>
         \A sigma \in Sigmas :
           Sat(Range(states[call.self].constraints), sigma)
             <=> Sat(Range(rev.self.constraints), sigma)

C5_Witness ==
  /\ rev.ret = "true"
  /\ call.ret = "true"
  /\ OnlySelf # {}
  /\ OnlyB # {}
  /\ OnlySelf # OnlyB
  /\ states[call.self].constraints # rev.self.constraints

(***************************************************************************)
(* Creation, fork and destruction of execution states, and the merge       *)
(* handlers they are open in.                                              *)
(***************************************************************************)
\* new ExecutionState(kf), lines 74-78
CreateState(kf) ==
  /\ nextID <= MaxStates
  /\ states' = [i \in DOMAIN states \cup {nextID} |->
                  IF i = nextID THEN ExecutionStateNew(kf, nextID) ELSE states[i]]
  /\ created' = Append(created, nextID)
  /\ nextID' = nextID + 1
  /\ UNCHANGED <<nextOs, nextMo, steps, call, rev, openStates, forked, utilVars>>

\* delete states[s], lines 80-86
Destroy(s) ==
  /\ openStates' = RemoveOpenStates(openStates, states[s].openMergeStack, s)
  /\ states' = [i \in DOMAIN states \ {s} |-> states[i]]
  /\ UNCHANGED <<nextID, nextOs, nextMo, steps, call, rev, created, forked, utilVars>>

\* klee_open_merge: a handler not in use is opened by the state
OpenMerge(s, h) ==
  /\ Running
  /\ \A t \in DOMAIN states : h \notin Range(states[t].openMergeStack)
  /\ states' = [states EXCEPT ![s].openMergeStack = Append(@, h)]
  /\ openStates' = [openStates EXCEPT ![h] = {s}]
  /\ steps' = steps + 1
  /\ UNCHANGED <<nextID, nextOs, nextMo, call, rev, created, forked, utilVars>>

\* klee_close_merge: the state leaves its innermost handler
CloseMerge(s) ==
  /\ Running
  /\ states[s].openMergeStack # <<>>
  /\ LET stack == states[s].openMergeStack
     IN  /\ openStates' = [openStates EXCEPT ![stack[Len(stack)]] = @ \ {s}]
         /\ states' = [states EXCEPT ![s].openMergeStack = SubSeq(stack, 1, Len(stack) - 1)]
  /\ steps' = steps + 1
  /\ UNCHANGED <<nextID, nextOs, nextMo, call, rev, created, forked, utilVars>>

\* the state executes a line not covered before
Cover(s, line) ==
  /\ Running
  /\ line \notin states[s].coveredLines
  /\ states' = [states EXCEPT ![s].coveredNew = TRUE, ![s].coveredLines = @ \cup {line}]
  /\ steps' = steps + 1
  /\ UNCHANGED <<nextID, nextOs, nextMo, call, rev, forkVars, utilVars>>

NextFork ==
  \/ \E s \in DOMAIN states : InitializeGlobals(s)
  \/ CreateState("main")
  \/ \E s \in DOMAIN states, cond \in BranchConditions : Fork(s, cond)
  \/ \E s \in DOMAIN states : Destroy(s)
  \/ \E s \in DOMAIN states, h \in Handlers : OpenMerge(s, h)
  \/ \E s \in DOMAIN states : CloseMerge(s)
  \/ \E s \in DOMAIN states, line \in Lines : Cover(s, line)
  \/ \E s \in DOMAIN states : AddConstraint(s, SymRead(1))

InitForkOnly ==
  InitMerge /\ ForkIdle /\ SplitIdle /\ PickIdle /\ RenderIdle /\ HexIdle /\ FindIdle /\ KtestIdle

SpecFork ==
  InitForkOnly
    /\ [][NextFork]_vars

(***************************************************************************)
(* Claims about identifiers, fork and merge handlers, under SpecFork.      *)
(***************************************************************************)
\* C11: no two live execution states carry the same identifier, and every
\* state created or forked has an identifier strictly greater than that of
\* every state created before it.
C11_FreshIdentifiers ==
  /\ \A i \in 1..Len(created), j \in 1..Len(created) :
        i < j => created[i] < created[j]
  /\ \A s \in DOMAIN states, t \in DOMAIN states :
        s # t => states[s].id # states[t].id
  /\ \A s \in DOMAIN states : states[s].id \in Range(created)

C11_Witness ==
  /\ forked.done
  /\ Len(created) = 3
  /\ Cardinality(DOMAIN states) = 2
  /\ forked.copy.id \in DOMAIN states
  /\ forked.pre.id \notin DOMAIN states
  /\ \E s \in DOMAIN states : s > forked.copy.id

\* the bindings of an address space, without the copy-on-write ownership
Bindings(objects) ==
  [i \in 1..Len(objects) |->
     [mo |-> objects[i].mo, id |-> objects[i].os.id, bytes |-> objects[i].os.bytes,
      readOnly |-> objects[i].os.readOnly]]

\* the call stack and the registers of a stack
CallStack(stack) ==
  [f \in 1..Len(stack) |->
     [caller |-> stack[f].caller, kf |-> stack[f].kf, locals |-> stack[f].locals]]

\* C12: branch changes nothing in self but the depth, which grows by 1; the
\* copy agrees with self on program counter, stack and registers, constraints,
\* symbolics and open merge handlers; the copy's coveredNew is false and its
\* coveredLines empty, while self keeps its coverage markers.
C12_ForkFrame ==
  forked.done =>
    /\ \A f \in DOMAIN forked.pre \ {"depth", "objects"} : forked.self[f] = forked.pre[f]
    /\ forked.self.depth = forked.pre.depth + 1
    /\ Bindings(forked.self.objects) = Bindings(forked.pre.objects)
    /\ \A f \in {"pc", "constraints", "symbolics", "openMergeStack"} :
          forked.copy[f] = forked.self[f]
    /\ CallStack(forked.copy.stack) = CallStack(forked.self.stack)
    /\ ~forked.copy.coveredNew
    /\ forked.copy.coveredLines = {}

C12_Witness ==
  /\ forked.done
  /\ forked.pre.coveredNew
  /\ forked.pre.coveredLines # {}
  /\ forked.self.coveredLines # {}
  /\ forked.pre.openMergeStack # <<>>
  /\ forked.pre.constraints # <<>>
  /\ forked.copy.coveredLines = {}

\* C13: every merge handler's open states are exactly the live states whose
\* open-merge stack contains the handler.
C13_OpenStatesAreLive ==
  \A h \in Handlers :
    openStates[h] = {s \in DOMAIN states : h \in Range(states[s].openMergeStack)}

C13_Witness ==
  /\ forked.done
  /\ Len(forked.copy.openMergeStack) = 2
  /\ forked.copy.id \notin DOMAIN states
  /\ \A h \in Handlers : openStates[h] = {forked.self.id}

(***************************************************************************)
(* splitExpr applied to the expressions of a bounded family: every kind,   *)
(* marked multi-revision or not, over operands that are leaves or selects  *)
(* carrying patch indices.                                                 *)
(***************************************************************************)
\* the patch indices stored in the select nodes: original, two revisions, merged
Patches == {0, 1, 2, Sentinel}

Leaves ==
  {ConstantAlloc(1, 8), [ConstantAlloc(2, 8) EXCEPT !.meta = TRUE], SymRead(1)}

\* a SelectExpr with merge set and its two patch indices
PatchedSelect(m, c, t, f, tp, fp) ==
  [Node("Select", m, <<c, t, f>>, 0) EXCEPT
     !.merge = TRUE, !.truePatch = tp, !.falsePatch = fp]

\* the pairs of patch indices of the operands
OperandPatches == {<<1, 2>>, <<0, Sentinel>>, <<Sentinel, 1>>, <<2, 0>>}

Operands ==
  Leaves \cup {PatchedSelect(TRUE, SymRead(2), ConstantAlloc(1, 8), SymRead(1), p[1], p[2]) :
                 p \in OperandPatches}

Conds == {SymRead(2), PatchedSelect(TRUE, SymRead(2), SymRead(1), ConstantAlloc(0, 1), 1, 2)}

\* Expr::Kind: the kinds of expression with one operand
OneOperandKinds == {"NotOptimized", "Read", "Extract", "ZExt", "SExt", "Not"}

\* Expr::Kind: the kinds of expression with two operands
TwoOperandKinds ==
  {"Concat", "Add", "Sub", "Mul", "UDiv", "SDiv", "URem", "SRem", "And",
   "Or", "Xor", "Shl", "LShr", "AShr", "Eq", "Ne", "Ult", "Ule", "Ugt", "Uge",
   "Slt", "Sle", "Sgt", "Sge"}

\* Expr::Kind: the kinds of expression the splitter supports
SupportedKinds == {"Constant", "Select"} \cup OneOperandKinds \cup TwoOperandKinds

\* a node of the given kind, with the parameters of its kind
KindNode(kind, m, ks) ==
  [Node(kind, m, ks, 0) EXCEPT
     !.offset = IF kind = "Extract" THEN 8 ELSE 0,
     !.width = IF kind \in {"Extract", "ZExt", "SExt"} THEN 16 ELSE 0,
     !.updates = IF kind = "Read" THEN 1 ELSE 0]

SplitInputs ==
  Operands
  \cup {KindNode(k, m, <<x>>) :
          k \in OneOperandKinds, m \in BOOLEAN, x \in Operands}
  \cup {KindNode(k, m, <<x, y>>) :
          k \in TwoOperandKinds, m \in BOOLEAN, x \in Operands, y \in Operands}
  \cup {KindNode("Select", m, <<c, t, f>>) :
          m \in BOOLEAN, c \in Operands, t \in Operands, f \in Operands}
  \cup {PatchedSelect(m, c, t, f, tp, fp) :
          m \in BOOLEAN, c \in Conds, t \in Operands, f \in Operands,
          tp \in Patches, fp \in Patches}

InitSplit == expr \in SplitInputs /\ res = NotSplit

\* res = splitExpr(expr)
Split ==
  /\ ~res.done
  /\ LET r == splitExpr(expr)
     IN  res' = [done |-> TRUE, pairs |-> r.pairs, invalid |-> r.invalid]
  /\ UNCHANGED <<expr, mergeVars, forkVars, pickVars, renderVars, hexVars, findVars, ktestVars>>

NextSplit == Split

InitSplitOnly ==
  InitSplit /\ InitMerge /\ ForkIdle /\ PickIdle /\ RenderIdle /\ HexIdle /\ FindIdle /\ KtestIdle

SpecSplit ==
  InitSplitOnly
    /\ [][NextSplit]_vars

(***************************************************************************)
(* pickPatchNo applied to every triple of tags.                            *)
(***************************************************************************)
InitPick == tags \in Tags \X Tags \X Tags /\ picked = NotPicked

\* a multi-revision operand whose split is x under the tag t, then y under 0
TaggedOperand(t, x, y) == PatchedSelect(TRUE, SymRead(2), x, y, t, 0)

\* a multi-revision select without patch indices whose condition, true and
\* false expressions are multi-revision and split under the tags ts[1],
\* ts[2] and ts[3]
TaggedSelect(ts) ==
  KindNode("Select", TRUE,
           <<KindNode("Not", TRUE, <<TaggedOperand(ts[1], SymRead(1), SymRead(2))>>),
             TaggedOperand(ts[2], ConstantAlloc(1, 8), ConstantAlloc(2, 8)),
             KindNode("ZExt", TRUE,
                      <<TaggedOperand(ts[3], ConstantAlloc(3, 8), ConstantAlloc(4, 8))>>)>>)

\* a multi-revision expression holding the two pairs of a split: a select
\* whose branches are the two sub-expressions, under the two tags
Remerged(pairs) ==
  PatchedSelect(TRUE, SymRead(1), pairs[1][2], pairs[2][2], pairs[1][1], pairs[2][1])

\* the select e rebuilt from the splits of its three children
RebuiltSelect(e) ==
  KindNode("Select", TRUE,
           <<Remerged(splitExpr(e.kids[1]).pairs),
             Remerged(splitExpr(e.kids[2]).pairs),
             Remerged(splitExpr(e.kids[3]).pairs)>>)

\* pickPatchNo on tags[1], tags[2], tags[3] under either grouping, and
\* splitExpr on a select whose children carry these tags and on the select
\* rebuilt from its children's splits
Pick ==
  /\ ~picked.done
  /\ picked' = [done |-> TRUE,
                mn |-> pickPatchNo(tags[1], tags[2]),
                left |-> pickPatchNo(pickPatchNo(tags[1], tags[2]), tags[3]),
                right |-> pickPatchNo(tags[1], pickPatchNo(tags[2], tags[3])),
                direct |-> splitExpr(TaggedSelect(tags)).pairs,
                again |-> splitExpr(RebuiltSelect(TaggedSelect(tags))).pairs]
  /\ UNCHANGED <<tags, mergeVars, forkVars, splitVars, renderVars, hexVars, findVars, ktestVars>>

NextPick == Pick

InitPickOnly ==
  InitPick /\ InitMerge /\ ForkIdle /\ SplitIdle /\ RenderIdle /\ HexIdle /\ FindIdle /\ KtestIdle

SpecPick ==
  InitPickOnly
    /\ [][NextPick]_vars

(***************************************************************************)
(* Claims about splitExpr (SpecSplit) and pickPatchNo (SpecPick).          *)
(***************************************************************************)
\* a real revision number: strictly between 0 and the sentinel
Real(t) == 0 < t /\ t < Sentinel

\* C6: an expression that is not marked multi-revision, and a constant whatever
\* its marker, is split into the single pair (0, expression).
C6_SplitBaseCase ==
  res.done /\ (~expr.meta \/ expr.kind = "Constant") =>
    res.pairs = << <<0, expr>> >> /\ ~res.invalid

C6_Witness ==
  /\ res.done
  /\ expr.kind = "Constant"
  /\ expr.meta
  /\ res.pairs = << <<0, expr>> >>

\* C7, as claimed: if exactly one of m, n is real the result is that one, and
\* in every other case, also when both are real and differ, it is m.
C7_PickPrefersFirst_Claimed ==
  picked.done =>
    LET m == tags[1]
        n == tags[2]
    IN  picked.mn = IF Real(n) /\ ~Real(m) THEN n ELSE m

\* C7, amended: if exactly one of m, n is real the result is that one; if
\* both are real it is the second, n; if neither is real it is m.
C7_PickPrefersSecond ==
  picked.done =>
    LET m == tags[1]
        n == tags[2]
    IN  /\ Real(m) /\ ~Real(n) => picked.mn = m
        /\ ~Real(m) /\ Real(n) => picked.mn = n
        /\ Real(m) /\ Real(n) => picked.mn = n
        /\ ~Real(m) /\ ~Real(n) => picked.mn = m

C7_Witness ==
  /\ picked.done
  /\ Real(tags[1])
  /\ Real(tags[2])
  /\ tags[1] # tags[2]
  /\ picked.mn = tags[2]

\* the pairs of a split, every tag replaced by the stored index
Stored(pairs, patch) == [k \in 1..Len(pairs) |-> <<patch, pairs[k][2]>>]

\* the pairs of a split, every tag that is not real replaced by the stored index
StoredUnlessReal(pairs, patch) ==
  [k \in 1..Len(pairs) |->
     <<IF Real(pairs[k][1]) THEN pairs[k][1] ELSE patch, pairs[k][2]>>]

IsPatchedSelect == expr.kind = "Select" /\ expr.meta /\ expr.merge

\* C8, as claimed: a multi-revision select carrying patch indices is split into
\* the split of its true branch followed by the split of its false branch, the
\* condition not being split, every pair tagged with the stored index of its branch.
C8_StoredIndexWins_Claimed ==
  res.done /\ IsPatchedSelect =>
    res.pairs = Stored(splitExpr(expr.kids[2]).pairs, expr.truePatch)
                  \o Stored(splitExpr(expr.kids[3]).pairs, expr.falsePatch)

\* C8, amended: every pair keeps the tag found in its branch when that tag is
\* a real revision number, and gets the stored index of its branch otherwise.
C8_BranchTagWins ==
  res.done /\ IsPatchedSelect =>
    res.pairs = StoredUnlessReal(splitExpr(expr.kids[2]).pairs, expr.truePatch)
                  \o StoredUnlessReal(splitExpr(expr.kids[3]).pairs, expr.falsePatch)

C8_Witness ==
  /\ res.done
  /\ IsPatchedSelect
  /\ expr.kids[1].meta
  /\ Real(expr.truePatch)
  /\ Len(res.pairs) = 4
  /\ Real(res.pairs[1][1])
  /\ res.pairs[1][1] # expr.truePatch
  /\ res.pairs[2][1] = expr.truePatch

\* C9: splitting a multi-revision node of any supported kind never reaches the
\* "invalid expression kind" assertion, and its case pushes at least one pair.
C9_SplitExhaustive ==
  res.done /\ expr.kind \in SupportedKinds =>
    ~res.invalid /\ Len(res.pairs) >= 1

C9_Witness ==
  /\ res.done
  /\ expr.meta
  /\ expr.kind = "Sge"
  /\ expr.kids[1].meta
  /\ ~res.invalid
  /\ Len(res.pairs) = 4

\* the revision tags of the pairs of a split
TagSet(pairs) == {pairs[k][1] : k \in 1..Len(pairs)}

\* the tags of the pairs of a split, in order
TagsOf(pairs) == [k \in 1..Len(pairs) |-> pairs[k][1]]

\* C10: pickPatchNo is associative, pick(a, pick(b, c)) = pick(pick(a, b), c)
\* for all tags a, b, c in 0..sentinel; the tag splitExpr gives to each
\* (condition, true, false) combination of a select node is the one that the
\* other grouping of the pairwise applications gives; and the select rebuilt
\* from its children's splits is split again into the same set of tags.
C10_PickAssociative ==
  picked.done =>
    /\ picked.left = picked.right
    /\ LET S == TaggedSelect(tags)
           x == Cross3(splitExpr(S.kids[1]).pairs,
                       splitExpr(S.kids[2]).pairs,
                       splitExpr(S.kids[3]).pairs)
       IN  /\ Len(picked.direct) = Len(x)
           /\ \A k \in 1..Len(x) :
                picked.direct[k][1] =
                  pickPatchNo(pickPatchNo(x[k][1][1], x[k][2][1]), x[k][3][1])
    /\ TagSet(picked.again) = TagSet(picked.direct)

\* three distinct tags, two of them real: the select is split into eight
\* pairs under more than one tag, and so is the rebuilt select
C10_Witness ==
  /\ picked.done
  /\ Real(tags[1])
  /\ Real(tags[2])
  /\ tags[1] # tags[2]
  /\ tags[3] = Sentinel
  /\ picked.left = tags[2]
  /\ picked.right = tags[2]
  /\ Len(picked.direct) = 8
  /\ Len(picked.again) = 8
  /\ TagsOf(picked.direct)
       = <<tags[2], tags[2], tags[1], tags[1], tags[2], tags[2], 0, 0>>
  /\ RebuiltSelect(TaggedSelect(tags)) # TaggedSelect(tags)

(***************************************************************************)
(* A Differentiator record populated and rendered, and writeHex applied to *)
(* every byte.                                                             *)
(***************************************************************************)
\* pairs of revision identifiers
Revisions == {<<1, 2>>, <<10, 305>>}

ArgIndices == {0, 1, 2}

\* the argument strings x and "\ (a quote and a backslash)
ArgValues == {<<120>>, <<34, 92>>}

\* the output names out!0!a and out!1!a
OutputNames == {<<111, 117, 116, 33, 48, 33, 97>>, <<111, 117, 116, 33, 49, 33, 97>>}

\* the payloads of the two revisions
Payloads == {<< <<1>>, <<2>> >>, << <<128>>, <<255, 10>> >>, << <<>>, <<15>> >>}

Builds == [charSigned : BOOLEAN, asserts : BOOLEAN]

InitRender ==
  /\ diff \in {Differentiator(r[1], r[2]) : r \in Revisions}
  /\ inserted = <<>>
  /\ build \in Builds
  /\ out = NotWritten

\* d.args[k] = v
AddArgument(k, v) ==
  /\ ~out.done
  /\ diff' = [diff EXCEPT !.args = (k :> v) @@ diff.args]
  /\ UNCHANGED <<inserted, build, out, mergeVars, forkVars, splitVars, pickVars, hexVars, findVars, ktestVars>>

\* d.outputs[name] = p
AddOutput(name, p) ==
  /\ ~out.done
  /\ diff' = [diff EXCEPT !.outputs = (name :> p) @@ diff.outputs]
  /\ inserted' = IF name \in DOMAIN diff.outputs THEN inserted ELSE Append(inserted, name)
  /\ UNCHANGED <<build, out, mergeVars, forkVars, splitVars, pickVars, hexVars, findVars, ktestVars>>

\* os << d
RenderDiff ==
  /\ ~out.done
  /\ LET w == Render(diff, build.charSigned, build.asserts)
     IN  out' = [done |-> TRUE, text |-> w.text, aborted |-> w.aborted]
  /\ UNCHANGED <<diff, inserted, build, mergeVars, forkVars, splitVars, pickVars, hexVars, findVars, ktestVars>>

NextRender ==
  \/ \E k \in ArgIndices, v \in ArgValues : AddArgument(k, v)
  \/ \E name \in OutputNames, p \in Payloads : AddOutput(name, p)
  \/ RenderDiff

InitRenderOnly ==
  InitRender /\ InitMerge /\ ForkIdle /\ SplitIdle /\ PickIdle /\ HexIdle /\ FindIdle /\ KtestIdle

SpecRender ==
  InitRenderOnly
    /\ [][NextRender]_vars

InitHex ==
  /\ hexIn \in Bytes
  /\ hexOut = NotWritten
  /\ diff = Differentiator(0, 0)
  /\ inserted = <<>>
  /\ build \in {b \in Builds : b.asserts}
  /\ out = NotWritten

\* writeHex(os, s) for the one-byte string s
WriteHex ==
  /\ ~hexOut.done
  /\ hexOut' = [done |-> TRUE, text |-> writeHex(<<hexIn>>, build.charSigned),
                aborted |-> FALSE]
  /\ UNCHANGED <<hexIn, diff, inserted, build, out, mergeVars, forkVars, splitVars, pickVars,
                 findVars, ktestVars>>

NextHex == WriteHex

InitHexOnly ==
  InitHex /\ InitMerge /\ ForkIdle /\ SplitIdle /\ PickIdle /\ FindIdle /\ KtestIdle

SpecHex ==
  InitHexOnly
    /\ [][NextHex]_vars

(***************************************************************************)
(* Claims about the textual form, under SpecRender and SpecHex.            *)
(***************************************************************************)
\* the lowercase hexadecimal digit of a nibble
HexDigit(n) == IF n < 10 THEN 48 + n ELSE 87 + n

\* every byte of s as \x and its two lowercase hexadecimal digits
HexEscape(s) ==
  [k \in 1..4 * Len(s) |->
     LET b == s[((k - 1) \div 4) + 1]
     IN  CASE (k - 1) % 4 = 0 -> 92
           [] (k - 1) % 4 = 1 -> 120
           [] (k - 1) % 4 = 2 -> HexDigit(b \div 16)
           [] OTHER -> HexDigit(b % 16)]

\* the quoted arguments of the indices ks, separated by single spaces
RECURSIVE ArgumentList(_, _)
ArgumentList(args, ks) ==
  IF ks = <<>> THEN <<>>
  ELSE quoted(args[Head(ks)])
         \o (IF Tail(ks) = <<>> THEN <<>> ELSE <<32>>)
         \o ArgumentList(args, Tail(ks))

\* the entry :name {revA <hexA> revB <hexB>} of an output
Entry(d, name) ==
  <<58>> \o name \o <<32, 123>>
    \o Decimal(d.revA) \o <<32>> \o HexEscape(d.outputs[name][1]) \o <<32>>
    \o Decimal(d.revB) \o <<32>> \o HexEscape(d.outputs[name][2]) \o <<125>>

\* the entries of the outputs named, separated by single spaces
RECURSIVE EntryList(_, _)
EntryList(d, names) ==
  IF names = <<>> THEN <<>>
  ELSE Entry(d, Head(names))
         \o (IF Tail(names) = <<>> THEN <<>> ELSE <<32>>)
         \o EntryList(d, Tail(names))

\* the text {("x") {:out!0!a {1 \x01 2 \x02}}}
ExampleText ==
  <<123, 40, 34, 120, 34, 41, 32, 123, 58, 111, 117, 116, 33, 48, 33, 97, 32,
    123, 49, 32, 92, 120, 48, 49, 32, 50, 32, 92, 120, 48, 50, 125, 125, 125>>

\* C14, as claimed: rendering a record yields {( + the quoted arguments in
\* increasing index order separated by single spaces + ) { + one entry
\* :name {revA <hexA> revB <hexB>} per output, the revisions in decimal and
\* the payloads hex-escaped + }}.
C14_RenderedForm_Claimed ==
  out.done =>
    /\ ~out.aborted
    /\ out.text = <<123, 40>> \o ArgumentList(diff.args, SortedIndices(DOMAIN diff.args))
                    \o <<41, 32, 123>>
                    \o EntryList(diff, SortedNames(DOMAIN diff.outputs))
                    \o <<125, 125>>

\* the record of the example renders as the text of the example
C14_Witness ==
  /\ out.done
  /\ diff = [revA |-> 1, revB |-> 2, args |-> (0 :> <<120>>),
             outputs |-> (<<111, 117, 116, 33, 48, 33, 97>> :> << <<1>>, <<2>> >>)]
  /\ out.text = ExampleText

\* the position of the entry of an output in the text, 0 if it has none
EntryAt(text, name) ==
  LET head == <<58>> \o name \o <<32, 123>>
      at == {i \in 1..Len(text) - Len(head) + 1 : SubSeq(text, i, i + Len(head) - 1) = head}
  IN  IF at = {} THEN 0 ELSE CHOOSE i \in at : \A j \in at : i <= j

\* C15: the entries of the outputs are rendered in the order in which the
\* outputs were inserted, whatever the lexical order of their names.
C15_InsertionOrder_Claimed ==
  out.done /\ ~out.aborted =>
    \A i \in 1..Len(inserted), j \in 1..Len(inserted) :
      i < j => EntryAt(out.text, inserted[i]) < EntryAt(out.text, inserted[j])

\* two outputs inserted in decreasing lexical order of their names are
\* rendered in the increasing one: the map iterates by key
C15_Witness ==
  /\ out.done
  /\ ~out.aborted
  /\ Len(inserted) = 2
  /\ LexLess(inserted[2], inserted[1])
  /\ EntryAt(out.text, inserted[2]) > 0
  /\ EntryAt(out.text, inserted[2]) < EntryAt(out.text, inserted[1])

\* C16, as claimed: every byte 0x00..0xff is rendered as \x followed by the
\* two lowercase hexadecimal digits of its value, high nibble first.
C16_HexEscape_Claimed ==
  hexOut.done =>
    hexOut.text = <<92, 120, HexDigit(hexIn \div 16), HexDigit(hexIn % 16)>>

\* a byte below 0x80 with letters in both digits is rendered as claimed
C16_Witness ==
  /\ hexOut.done
  /\ hexIn = 123
  /\ hexOut.text = <<92, 120, 55, 98>>

(***************************************************************************)
(* findReads and findSymbolicObjects applied to the expressions of a       *)
(* bounded family over the reads of the arenas.                            *)
(***************************************************************************)
\* two reads of the list with head 1, and reads of the lists with heads 2 and 3
ReadD == ReadCreate(4, ConstantAlloc(1, 32))

ReadE == ReadCreate(4, ConstantAlloc(2, 32))

ReadF == ReadCreate(5, ConstantAlloc(0, 32))

ReadG == ReadCreate(6, ConstantAlloc(0, 32))

FindLeaves == {ConstantAlloc(5, 8), ReadA, ReadB, ReadC, ReadD, ReadE, ReadF, ReadG}

FindInputs ==
  FindLeaves
  \cup {Node("Not", FALSE, <<x>>, 0) : x \in FindLeaves}
  \cup {Node("Add", FALSE, <<x, y>>, 0) : x \in FindLeaves, y \in FindLeaves}
  \cup {Node("Select", FALSE, <<Node("Eq", FALSE, <<ReadA, x>>, 0), x, y>>, 0) :
          x \in FindLeaves, y \in {ReadD, ReadE, ReadF}}

InitFind ==
  /\ query \in [es : {<<e>> : e \in FindInputs}
                       \cup {<<e, x>> : e \in FindInputs, x \in {ReadB, ReadC, ReadF}},
                visitUpdates : BOOLEAN]
  /\ fr = NotEntered
  /\ found = NotFound

\* findReads(e, visitUpdates, results) is called with empty results
FindReadsCall ==
  /\ fr.pc = "idle"
  /\ fr' = [pc |-> "loop", st |-> FindReadsEnter(query.es[1])]
  /\ UNCHANGED <<query, found, mergeVars, forkVars, splitVars, pickVars, renderVars, hexVars, ktestVars>>

\* one iteration of the loop of findReads
FindReadsLoop ==
  /\ fr.pc = "loop"
  /\ fr.st.stack # <<>>
  /\ fr' = [fr EXCEPT !.st = FindReadsIterate(fr.st, query.visitUpdates)]
  /\ UNCHANGED <<query, found, mergeVars, forkVars, splitVars, pickVars, renderVars, hexVars, ktestVars>>

\* the stack is empty: findReads returns
FindReadsReturn ==
  /\ fr.pc = "loop"
  /\ fr.st.stack = <<>>
  /\ fr' = [fr EXCEPT !.pc = "done"]
  /\ UNCHANGED <<query, found, mergeVars, forkVars, splitVars, pickVars, renderVars, hexVars, ktestVars>>

\* findSymbolicObjects(begin, end, results) is called with empty results
FindSymbolicObjects ==
  /\ ~found.done
  /\ found' = [done |-> TRUE, objects |-> findSymbolicObjects(query.es, <<>>)]
  /\ UNCHANGED <<query, fr, mergeVars, forkVars, splitVars, pickVars, renderVars, hexVars, ktestVars>>

NextFind ==
  \/ FindReadsCall
  \/ FindReadsLoop
  \/ FindReadsReturn
  \/ FindSymbolicObjects

InitFindOnly ==
  InitFind /\ InitMerge /\ ForkIdle /\ SplitIdle /\ PickIdle /\ RenderIdle /\ HexIdle
    /\ KtestIdle

SpecFind ==
  InitFindOnly
    /\ [][NextFind]_vars

(***************************************************************************)
(* Claims about findSymbolicObjects and findReads, under SpecFind.         *)
(***************************************************************************)
\* the addresses of the update nodes of the chain that starts at head
RECURSIVE ChainAddresses(_)
ChainAddresses(head) ==
  IF head = 0 THEN {} ELSE {head} \cup ChainAddresses(UpdateNodes[head].next)

\* the expressions one step from x: its children and, for a read when update
\* chains count, the index and value expressions of its update chain
Successors(x, chains) ==
  Range(x.kids)
    \cup (IF x.kind = "Read" /\ chains
          THEN UNION {{UpdateNodes[a].index, UpdateNodes[a].value} :
                        a \in ChainAddresses(UpdateLists[x.updates].head)}
          ELSE {})

RECURSIVE Reach(_, _)
Reach(S, chains) ==
  LET N == S \cup UNION {Successors(x, chains) : x \in S}
  IN  IF N = S THEN S ELSE Reach(N, chains)

\* the read nodes reachable from the expressions of S
ReachableReads(S, chains) == {x \in Reach(S, chains) : x.kind = "Read"}

Occurrences(q, x) == Cardinality({i \in 1..Len(q) : q[i] = x})

\* C17: findSymbolicObjects returns exactly the root arrays of the reads
\* reachable, through children and update chains, from the expressions of the
\* collection that are symbolic arrays, each exactly once, and never a
\* constant array.
C17_SymbolicRootsOnce ==
  found.done =>
    /\ Range(found.objects) =
         {UpdateLists[r.updates].root : r \in ReachableReads(Range(query.es), TRUE)}
           \ ConstantArrays
    /\ \A a \in Range(found.objects) : Occurrences(found.objects, a) = 1

C17_Witness ==
  /\ found.done
  /\ Len(query.es) = 2
  /\ query.es[2] = ReadF
  /\ ReadB \in Reach({query.es[1]}, TRUE)
  /\ ReadD \in Reach({query.es[1]}, TRUE)
  /\ Occurrences(found.objects, 2) = 1
  /\ 3 \notin Range(found.objects)

\* C18: with visitUpdates, findReads reports every read reachable through
\* children, read indices and update chains, also reads that share the head of
\* an update chain, and walks the chain of every head once; without
\* visitUpdates it reports the reads reachable without update chains only.
C18_AllReadsReported ==
  fr.pc = "done" =>
    /\ Range(fr.st.results) = ReachableReads({query.es[1]}, query.visitUpdates)
    /\ \A i \in 1..Len(fr.st.walked), j \in 1..Len(fr.st.walked) :
          i # j => fr.st.walked[i] # fr.st.walked[j]
    /\ ~query.visitUpdates => fr.st.walked = <<>>

C18_Witness ==
  /\ fr.pc = "done"
  /\ query.visitUpdates
  /\ ReadD \in Range(query.es[1].kids)
  /\ ReadE \in Range(query.es[1].kids)
  /\ ReadD \in Range(fr.st.results)
  /\ ReadE \in Range(fr.st.results)
  /\ ReadA \in Range(fr.st.results)
  /\ Occurrences(fr.st.walked, 1) = 1

\* the number of access paths from x to r
RECURSIVE PathCount(_, _, _)
RECURSIVE PathCountAll(_, _, _)
PathCount(x, r, chains) ==
  (IF x = r THEN 1 ELSE 0)
    + PathCountAll(x.kids \o (IF x.kind = "Read" /\ chains
                              THEN ChainExprs(UpdateLists[x.updates].head)
                              ELSE <<>>),
                   r, chains)

PathCountAll(xs, r, chains) ==
  IF xs = <<>> THEN 0
  ELSE PathCount(Head(xs), r, chains) + PathCountAll(Tail(xs), r, chains)

\* C19, as claimed: a read reachable from the root along several access paths
\* is in the result once per access path.
C19_OncePerPath_Claimed ==
  fr.pc = "done" =>
    \A r \in Range(fr.st.results) :
      Occurrences(fr.st.results, r) = PathCount(query.es[1], r, query.visitUpdates)

\* C19, amended: a read reachable from the root is in the result exactly once,
\* however many access paths lead to it.
C19_OncePerRead ==
  fr.pc = "done" =>
    \A r \in ReachableReads({query.es[1]}, query.visitUpdates) :
      Occurrences(fr.st.results, r) = 1

C19_Witness ==
  /\ fr.pc = "done"
  /\ \E r \in Range(fr.st.results) :
       /\ PathCount(query.es[1], r, query.visitUpdates) >= 3
       /\ Occurrences(fr.st.results, r) = 1

(***************************************************************************)
(* ktest-gen: main fills the KTest record b, whose objects array has MAX   *)
(* slots, through push_obj and push_range.                                 *)
(***************************************************************************)
\* #define MAX 64, the number of slots malloc'ed for b.objects
MAX == 64

\* the most objects the options of a command line ask for; numObjects, an
\* unsigned, stays far below its width
MaxOptions == 64

\* the most --sym-file options of a command line
MaxFiles == 1

Named(name, numBytes) == [name |-> name, numBytes |-> numBytes]

\* push_obj, lines 26-36: the slot is taken and numObjects incremented, then
\* the assertion is checked, then the slot is written.  A write to a slot
\* that the array does not have is recorded in outside.
push_obj(b, name, total_bytes, asserts) ==
  LET slot == b.numObjects
      b1 == [b EXCEPT !.numObjects = @ + 1]
  IN  IF asserts /\ ~(b1.numObjects < MAX) THEN [b1 EXCEPT !.status = "aborted"]
      ELSE IF slot >= MAX THEN [b1 EXCEPT !.outside = TRUE]
      ELSE [b1 EXCEPT !.objects = Append(@, Named(name, total_bytes))]

\* push_range, lines 38-48: as push_obj, with the four bytes of value
push_range(b, name, asserts) ==
  LET slot == b.numObjects
      b1 == [b EXCEPT !.numObjects = @ + 1]
  IN  IF asserts /\ ~(b1.numObjects < MAX) THEN [b1 EXCEPT !.status = "aborted"]
      ELSE IF slot >= MAX THEN [b1 EXCEPT !.outside = TRUE]
      ELSE [b1 EXCEPT !.objects = Append(@, Named(name, 4))]

\* consecutive calls of push_obj; a failed assertion ends the program
RECURSIVE PushObjs(_, _, _)
PushObjs(b, os, asserts) ==
  IF os = <<>> \/ b.status # "running" THEN b
  ELSE PushObjs(push_obj(b, Head(os).name, Head(os).numBytes, asserts), Tail(os), asserts)

\* a write outside the array is undefined behaviour: the program goes on with
\* a damaged heap or is killed
Outcomes(b) ==
  IF b.outside /\ b.status = "running" THEN {b, [b EXCEPT !.status = "crashed"]}
  ELSE {b}

\* main goes on at pc unless the program has ended
GoesOn(b, pc) == IF b.status = "running" THEN [b EXCEPT !.pc = pc] ELSE b

Options == {"sym-arg", "sym-args", "second-var"}

ArgBytes == 2

StatBytes == 144

InitKtest ==
  /\ cmd \in [option : Options, files : 0..MaxFiles, stdin : BOOLEAN, stdout : BOOLEAN,
              asserts : BOOLEAN]
  /\ ktest = NotRun

MainAt(pc) == ktest.status = "running" /\ ktest.pc = pc

\* --sym-arg <arg>, lines 145-159
SymArg ==
  /\ MainAt("options")
  /\ cmd.option = "sym-arg"
  /\ ktest.numObjects < MaxOptions
  /\ ktest' \in Outcomes(push_obj([ktest EXCEPT !.symArg = @ + 1],
                                  <<"arg0%d", ktest.symArg>>, ArgBytes, cmd.asserts))
  /\ UNCHANGED <<cmd, mergeVars, forkVars, splitVars, pickVars, renderVars, hexVars, findVars>>

\* --sym-args <N> (<arg>)*, lines 126-144
SymArgs(n) ==
  /\ MainAt("options")
  /\ cmd.option = "sym-args"
  /\ ktest.numObjects + n <= MaxOptions
  /\ ktest' \in Outcomes(PushObjs([ktest EXCEPT !.symArgs = @ + n],
                                  [k \in 1..n |->
                                     Named(<<"arg%02d", ktest.symArgs + k - 1>>, ArgBytes)],
                                  cmd.asserts))
  /\ UNCHANGED <<cmd, mergeVars, forkVars, splitVars, pickVars, renderVars, hexVars, findVars>>

\* --second-var <id> <N> <val>, lines 160-174
SecondVar ==
  /\ MainAt("options")
  /\ cmd.option = "second-var"
  /\ ktest.numObjects < MaxOptions
  /\ ktest' \in Outcomes(push_obj(ktest, <<"var", ktest.numObjects>>, ArgBytes, cmd.asserts))
  /\ UNCHANGED <<cmd, mergeVars, forkVars, splitVars, pickVars, renderVars, hexVars, findVars>>

\* lines 177-244: the options are read; the data and the stat of every
\* --sym-file are pushed, under the names A-data, A-data-stat, B-data, ...
SymFiles ==
  /\ MainAt("options")
  /\ ktest' \in Outcomes(GoesOn(PushObjs(ktest,
                                         [k \in 1..(2 * cmd.files) |->
                                            IF k % 2 = 1
                                            THEN Named(<<"data", (k + 1) \div 2>>, ArgBytes)
                                            ELSE Named(<<"data-stat", k \div 2>>, StatBytes)],
                                         cmd.asserts),
                                "stdin"))
  /\ UNCHANGED <<cmd, mergeVars, forkVars, splitVars, pickVars, renderVars, hexVars, findVars>>

\* lines 246-283: --sym-stdin
SymStdin ==
  /\ MainAt("stdin")
  /\ ktest' \in Outcomes(GoesOn(PushObjs(ktest,
                                         IF cmd.stdin
                                         THEN <<Named("stdin", ArgBytes),
                                                Named("stdin-stat", StatBytes)>>
                                         ELSE <<>>,
                                         cmd.asserts),
                                "stdout"))
  /\ UNCHANGED <<cmd, mergeVars, forkVars, splitVars, pickVars, renderVars, hexVars, findVars>>

\* lines 285-320: --sym-stdout
SymStdout ==
  /\ MainAt("stdout")
  /\ ktest' \in Outcomes(GoesOn(PushObjs(ktest,
                                         IF cmd.stdout
                                         THEN <<Named("stdout", 1024),
                                                Named("stdout-stat", StatBytes)>>
                                         ELSE <<>>,
                                         cmd.asserts),
                                "version"))
  /\ UNCHANGED <<cmd, mergeVars, forkVars, splitVars, pickVars, renderVars, hexVars, findVars>>

\* line 332: push_range(&b, "model_version", 1)
ModelVersion ==
  /\ MainAt("version")
  /\ ktest' \in Outcomes(GoesOn(push_range(ktest, "model_version", cmd.asserts), "toFile"))
  /\ UNCHANGED <<cmd, mergeVars, forkVars, splitVars, pickVars, renderVars, hexVars, findVars>>

\* lines 334-347: the record is written and freed. kTest_toFile tells
\* whether it could write the file; when it could not, assert(0) of line 335
\* ends a program built with assertions. The loop of lines 337-340 then
\* frees the name and the bytes of numObjects slots: after a push outside
\* the array it reads slots the array does not have, and the program
\* returns from main or is killed in the frees.
ToFile ==
  /\ MainAt("toFile")
  /\ \E written \in BOOLEAN :
        ktest' \in IF ~written /\ cmd.asserts
                   THEN {[ktest EXCEPT !.status = "aborted"]}
                   ELSE {GoesOn(freed, "exit") : freed \in Outcomes(ktest)}
  /\ UNCHANGED <<cmd, mergeVars, forkVars, splitVars, pickVars, renderVars, hexVars, findVars>>

NextKtest ==
  \/ SymArg
  \/ \E n \in 1..2 : SymArgs(n)
  \/ SecondVar
  \/ SymFiles
  \/ SymStdin
  \/ SymStdout
  \/ ModelVersion
  \/ ToFile

InitKtestOnly ==
  InitKtest /\ InitMerge /\ ForkIdle /\ SplitIdle /\ PickIdle /\ RenderIdle /\ HexIdle
    /\ FindIdle

SpecKtest ==
  InitKtestOnly
    /\ [][NextKtest]_vars

\* the program was ended by the assertion of a push (lines 29, 41), not by
\* the assert(0) that follows a failed kTest_toFile (line 335)
CapacityAssertionTripped == ktest.status = "aborted" /\ ktest.pc # "toFile"

\* C20, as claimed: for every k from 1 to 64 the k-th push, the final
\* model_version object included, stores the object in slot k - 1 without
\* tripping the capacity assertion and without a write outside the array.
C20_SixtyFourObjects_Claimed ==
  ktest.numObjects <= MAX =>
    /\ ~CapacityAssertionTripped
    /\ ~ktest.outside
    /\ Len(ktest.objects) = ktest.numObjects

\* the 64th push, of model_version, trips the assertion
C20_Witness ==
  /\ cmd.asserts
  /\ ktest.pc = "version"
  /\ ktest.numObjects = MAX
  /\ Len(ktest.objects) = MAX - 1
  /\ ktest.status = "aborted"

(***************************************************************************)
(* Records with many outputs: the outputs are inserted one after another   *)
(* and the record is rendered at any time.                                 *)
(***************************************************************************)
\* the most outputs of a record
MaxOutputs == 257

\* the name of the n-th output inserted: two letters, increasing with n
OutputName(n) == <<97 + (n \div 16), 97 + (n % 16)>>

InitOutputs ==
  /\ diff = Differentiator(1, 2)
  /\ inserted = <<>>
  /\ build \in {b \in Builds : b.asserts}
  /\ out = NotWritten

\* d.outputs[name] = p for the next name
AddNextOutput ==
  /\ Len(inserted) < MaxOutputs
  /\ AddOutput(OutputName(Len(inserted)), << <<1>>, <<2>> >>)

NextOutputs ==
  \/ AddNextOutput
  \/ RenderDiff

InitOutputsOnly ==
  InitOutputs /\ InitMerge /\ ForkIdle /\ SplitIdle /\ PickIdle /\ HexIdle /\ FindIdle
    /\ KtestIdle

SpecOutputs ==
  InitOutputsOnly
    /\ [][NextOutputs]_vars

\* the positions of the text that hold the colon opening an output entry
Colons(text) == {i \in 1..Len(text) : text[i] = 58}

\* C21, as claimed: the first output entry follows the opening brace with no
\* separator and every later entry follows the closing brace of the entry
\* before it and exactly one space, however many outputs the record has.
C21_Separators_Claimed ==
  (out.done /\ ~out.aborted) =>
    /\ Cardinality(Colons(out.text)) = Cardinality(DOMAIN diff.outputs)
    /\ \A i \in Colons(out.text) :
         \/ out.text[i - 1] = 123 /\ \A j \in Colons(out.text) : i <= j
         \/ out.text[i - 1] = 32 /\ out.text[i - 2] = 125

\* the record has 257 outputs and the last entry follows the entry before it
\* with no space
C21_Witness ==
  /\ out.done
  /\ Cardinality(DOMAIN diff.outputs) = 257
  /\ \E i \in Colons(out.text) :
       /\ out.text[i - 1] = 125
       /\ SubSeq(out.text, i + 1, i + 2) = OutputName(256)

\* C22, as claimed: rendering a record trips the assertion on the argument
\* indices for no set of indices the record holds, and the text begins with
\* all the stored arguments in increasing index order.
C22_IndexAssertion_Claimed ==
  out.done =>
    /\ ~out.aborted
    /\ LET begin == <<123, 40>>
                      \o ArgumentList(diff.args, SortedIndices(DOMAIN diff.args))
                      \o <<41>>
       IN  /\ Len(out.text) >= Len(begin)
           /\ SubSeq(out.text, 1, Len(begin)) = begin

\* a record holding the arguments 0 and 2 only is rendered with assertions
\* on: the program is stopped at the second argument
C22_Witness ==
  /\ out.done
  /\ build.asserts
  /\ DOMAIN diff.args = {0, 2}
  /\ out.aborted
  /\ out.text = <<123, 40>> \o quoted(diff.args[0])

(***************************************************************************)
(* The cross product of splitExpr, under SpecSplit.                        *)
(***************************************************************************)
\* pick, as the specification words it: a real second tag wins, otherwise
\* the first tag stands
FoldPick(m, n) == IF Real(n) THEN n ELSE m

\* e is a node of the given kind over the operands ks
Rebuilt(e, kind, ks) == e.kind = kind /\ e.kids = ks

\* the pairs of a node with one operand: one per pair of the operand's split,
\* with its tag, and with the update list, offset and width of the node
OneOperandShape ==
  LET S == splitExpr(expr.kids[1]).pairs
  IN  /\ Len(res.pairs) = Len(S)
      /\ \A k \in 1..Len(S) :
           /\ res.pairs[k][1] = S[k][1]
           /\ Rebuilt(res.pairs[k][2], expr.kind, <<S[k][2]>>)
           /\ res.pairs[k][2].updates = expr.updates
           /\ res.pairs[k][2].offset = expr.offset
           /\ res.pairs[k][2].width = expr.width

\* the pairs of a node with two operands: the cross product, left-major,
\* every pair holding what the constructor of the node's kind builds from
\* the combination (lines 192-193, 220-221)
TwoOperandShape ==
  LET L == splitExpr(expr.kids[1]).pairs
      R == splitExpr(expr.kids[2]).pairs
  IN  /\ Len(res.pairs) = Len(L) * Len(R)
      /\ \A i \in 1..Len(L), j \in 1..Len(R) :
           LET p == res.pairs[(i - 1) * Len(R) + j]
           IN  /\ p[1] = FoldPick(L[i][1], R[j][1])
               /\ p[2] = Create(expr.kind, <<L[i][2], R[j][2]>>)

\* the pairs of a select without patch indices: the triple product,
\* left-major, every pair holding what the select constructor builds from
\* the combination (lines 183-184)
SelectShape ==
  LET C == splitExpr(expr.kids[1]).pairs
      T == splitExpr(expr.kids[2]).pairs
      F == splitExpr(expr.kids[3]).pairs
  IN  /\ Len(res.pairs) = Len(C) * Len(T) * Len(F)
      /\ \A i \in 1..Len(C), j \in 1..Len(T), k \in 1..Len(F) :
           LET p == res.pairs[((i - 1) * Len(T) + (j - 1)) * Len(F) + k]
           IN  /\ p[1] = FoldPick(C[i][1], FoldPick(T[j][1], F[k][1]))
               /\ p[2] = SelectCreate(C[i][2], T[j][2], F[k][2])

MemoryObjects == {1, 2}

\* the interpreter records in the running frame a non-local object read
\* (written = FALSE) or written (written = TRUE)
NoteNonLocal(s, mo, written) ==
  /\ Running
  /\ \E k \in 1..Len(states[s].objects) : states[s].objects[k].mo = mo
  /\ LET top == Len(states[s].stack)
     IN  /\ mo \notin states[s].stack[top].allocas
         /\ mo \notin (IF written THEN states[s].stack[top].nonLocalsWritten
                      ELSE states[s].stack[top].nonLocalsRead)
         /\ states' = IF written
                      THEN [states EXCEPT ![s].stack[top].nonLocalsWritten = @ \cup {mo}]
                      ELSE [states EXCEPT ![s].stack[top].nonLocalsRead = @ \cup {mo}]
  /\ steps' = steps + 1
  /\ UNCHANGED <<nextID, nextOs, nextMo, call, rev, forkVars, utilVars>>

NextCopy ==
  \/ \E s \in DOMAIN states : InitializeGlobals(s)
  \/ \E s \in DOMAIN states, cond \in BranchConditions : Branch(s, cond)
  \/ \E s \in DOMAIN states, c \in Callers, kf \in KFunctions : PushFrame(s, c, kf)
  \/ \E s \in DOMAIN states : PopFrame(s)
  \/ \E s \in DOMAIN states, a \in Arrays : AddSymbolic(s, 1, a)
  \/ \E s \in DOMAIN states, i \in 1..2, v \in Values : BindLocal(s, i, v)
  \/ \E s \in DOMAIN states, c \in Range(Conditions) : AddConstraint(s, c)
  \/ \E s \in DOMAIN states : Alloc(s)
  \/ \E s \in DOMAIN states, mo \in MemoryObjects, written \in BOOLEAN :
        NoteNonLocal(s, mo, written)

InitCopyOnly ==
  InitMerge /\ ForkIdle /\ SplitIdle /\ PickIdle /\ RenderIdle /\ HexIdle /\ FindIdle
    /\ KtestIdle

SpecCopy ==
  InitCopyOnly
    /\ [][NextCopy]_vars

\* what the claim says a state keeps whatever is done to the other state
Kept(st) == <<st.stack, st.constraints, st.symbolics>>

\* a step that changes what one state keeps leaves the other states alone
OthersUntouched ==
  \A s \in DOMAIN states \cap DOMAIN states', t \in DOMAIN states \cap DOMAIN states' :
    (s # t /\ Kept(states'[s]) # Kept(states[s])) => Kept(states'[t]) = Kept(states[t])

\* the copy made by the last fork has the frames self had
CopyStartsEqual == forked.done => forked.copy.stack = forked.pre.stack

\* C24, as claimed: the copy made by fork starts with the per-frame contents
\* of the original, the tracked non-local read and written sets included,
\* and whatever is done to one of the two states afterwards leaves the
\* frames, constraints and symbolic objects of the other as they were.
C24_IndependentCopy_Claimed == [][CopyStartsEqual' /\ OthersUntouched]_vars

\* the two states are independent after the fork, which is all of the claim
\* but the contents the copy starts with
C24_Independence == [][OthersUntouched]_vars

\* a state whose frame has recorded a non-local read is forked: the frame of
\* the copy has recorded none, and a later register write in the copy leaves
\* self as the fork left it
C24_Witness ==
  /\ forked.done
  /\ forked.pre.stack[1].nonLocalsRead # {}
  /\ forked.copy.stack[1].nonLocalsRead = {}
  /\ forked.copy.stack[1].locals = forked.pre.stack[1].locals
  /\ forked.copy.id \in DOMAIN states
  /\ states[forked.copy.id].stack[1].locals # forked.copy.stack[1].locals
  /\ states[forked.self.id].stack = forked.self.stack

(***************************************************************************)
(* The loop of findReads: a call that has entered the loop goes on         *)
(* iterating until the stack is empty, and then returns.                   *)
(***************************************************************************)
SpecFindLive ==
  InitFindOnly
    /\ [][NextFind]_vars
    /\ WF_vars(FindReadsLoop)
    /\ WF_vars(FindReadsReturn)

\* the non-constant expressions reachable from the root of the query
NonConstantReach ==
  {x \in Reach({query.es[1]}, query.visitUpdates) : x.kind # "Constant"}

\* every expression on the stack is non-constant and visited, no expression
\* has been pushed twice, and no more expressions have been popped than
\* there are non-constant expressions reachable from the root
FindReadsInvariant ==
  fr.pc \in {"loop", "done"} =>
    /\ \A i \in 1..Len(fr.st.stack) :
         fr.st.stack[i].kind # "Constant" /\ fr.st.stack[i] \in fr.st.visited
    /\ \A i \in 1..Len(fr.st.pushed), j \in 1..Len(fr.st.pushed) :
         i # j => fr.st.pushed[i] # fr.st.pushed[j]
    /\ fr.st.pops <= Cardinality(NonConstantReach)

\* C25: at every iteration of the loop of findReads the stack holds
\* non-constant visited expressions only, no expression is pushed twice and
\* at most one pop is made per non-constant expression reachable from the
\* root; every call of findReads returns.
C25_LoopInvariant == []FindReadsInvariant /\ (fr.pc = "loop" ~> fr.pc = "done")

\* a call has returned after popping each of five or more reachable
\* expressions once, one of them reachable along several paths
C25_Witness ==
  /\ fr.pc = "done"
  /\ fr.st.pops >= 5
  /\ fr.st.pops = Cardinality(NonConstantReach)
  /\ \E r \in NonConstantReach : PathCount(query.es[1], r, query.visitUpdates) >= 2

=============================================================================
